---- MODULE Spec2Model ----
(***************************************************************************)
(* Model of the debug console's audio path: the AudioPlayer class          *)
(* (src/unnamed/part_000, imported by the application as                   *)
(* ../lib/audio-player) driven by the browser's event loop and by the     *)
(* audio context's clock.                                                  *)
(*                                                                         *)
(* Units.  Audio-clock times and buffer durations are integers in          *)
(* milliseconds (0.05 s = 50, 0.01 s = 10).  Gain levels are integers in   *)
(* thousandths (0.5 = 500, 0.3 * g = (g * 3) \div 10).                     *)
(*                                                                         *)
(* Event loop.  Every public method runs to completion as one action.      *)
(* playAudioChunk is async: it runs synchronously up to                    *)
(* `await this.audioContext.resume()` (only reached when the context is    *)
(* suspended) and its continuation runs as a microtask once the browser    *)
(* settles the resume promise.  Microtasks run before any other task, so   *)
(* every other action waits for the microtask queue to drain.              *)
(*                                                                         *)
(* Gain.  The gain parameter has two readings: gain, what a script gets    *)
(* from gainNode.gain.value, and gainLevel, the level the node applies to  *)
(* its output.  Assigning gain.value sets both at once.                    *)
(* gain.setValueAtTime(v, currentTime) sets gainLevel only; gain follows   *)
(* when the audio thread renders its next block, which needs a running     *)
(* context.                                                                *)
(***************************************************************************)
EXTENDS Integers, Sequences, FiniteSets, TLC

\* ---------------------------------------------------------------- bounds
MaxCalls == 2          \* playAudioChunk invocations explored (Spec, SpecPlayer)
MaxOrderCalls == 3     \* playAudioChunk invocations explored (SpecOrder)
MaxFreshIds == 1102    \* distinct frame ids explored (SpecDedup)
MaxReinserts == 1      \* evicted frame ids sent again (SpecDedup)
MaxClock == 80         \* the audio clock is explored up to this time (ms)
MaxStops == 1          \* stopAllAudio / interrupt invocations explored
MaxControlOps == 1     \* setVolume/setMicrophoneActive calls explored (SpecPlayer)
MaxGainOps == 5        \* setVolume/setMicrophoneActive calls explored (SpecGain)
MaxStarts == 2         \* MicrophoneManager.start() calls in flight at one time
MaxToggles == 3        \* setMicrophoneActive calls after which the microphone button rests
MaxBase64Chars == 6    \* length of the base64 payloads decoded (SpecDecode)
MaxConnections == 2    \* connections a client's sockets establish
MaxEvents == 2         \* socket events a client receives from the server
MaxTicks == 7          \* steps of TickMs by which Date.now() advances
MaxClicks == 2         \* clicks on the buttons of the message scheduler

\* ------------------------------------------------------ program constants
LookaheadMs == 50           \* now + 0.05
GapMs == 10                 \* audioBuffer.duration + 0.01
MaxProcessedIds == 1000     \* processedIds.size > 1000
TrimCount == 100            \* idsArray.slice(0, 100)
SampleRate == 24000         \* private sampleRate = 24000
BitDepth == 16              \* private bitDepth = 16
DefaultGain == 500          \* gainNode.gain.value = 0.5
UnmuteGain == 500           \* this.isMuted ? 0 : 0.5
DuckTenths == 3             \* this.originalVolume * 0.3
MinDelayMs == 1500          \* Math.max(1500, messageToSend.delay || 0)
AgentCooldownMs == 3000     \* timeSinceLastSend < 3000
ManualCooldownMs == 1000    \* timeSinceLastSend < 1000
SilenceMs == 2000           \* setTimeout(..., 2000); timeSinceLastAudio >= 2000
AutoStartMs == 500          \* setTimeout(() => handleManualSchedulerTrigger(), 500)
MinAgentTextLength == 10    \* agentText.trim().length > 10

\* ------------------------------------------------------------ input sets
NoFrameId == 0                 \* frameId absent (undefined); frame ids are 1, 2, ...
NoResponseId == "null"
FrameIds == {1}
ResponseIds == {"r1"}
\* A base64 payload is represented by what window.atob makes of it: whether
\* it is accepted, and the number of decoded bytes.
Payloads ==
    { [valid |-> TRUE, byteLength |-> 960],     \* 480 samples, 20 ms
      [valid |-> TRUE, byteLength |-> 2880],    \* 1440 samples, 60 ms
      [valid |-> FALSE, byteLength |-> 0] }     \* malformed base64: atob throws
TickSteps == {40}
PlayerTickSteps == {80}        \* the coarser clock of SpecPlayer
Volumes == {30}
GainVolumes == {-20, 30, 150}  \* below 0, in range, above 100 (SpecGain)
\* Base64 characters by their 6-bit values: A, E, I, 3 and /.  Among the
\* payloads they spell are the 16-bit samples 0, 16384, -32768 and 32767.
Sextets == {0, 4, 8, 55, 63}
\* What the server sends in a conversation_message event: the id the sender
\* gave the message, whether the event has a data field, the message's name
\* and its payload's chunk: undefined, "", a number, or a base64 string of
\* 960 bytes of PCM.
UpstreamMessages ==
    { [id |-> i, hasData |-> TRUE, name |-> n, chunk |-> k, response_id |-> "r1"] :
         i \in {"m1", "m2"}, n \in {"AudioFrame", "AudioFrame2", "AgentMessage"},
         k \in {"undefined", "empty", "number", "pcm"} }
    \cup { [id |-> i, hasData |-> FALSE, name |-> "AudioFrame", chunk |-> "pcm",
            response_id |-> "r1"] : i \in {"m1", "m2"} }
TrackedResponseIds == {"r1", "r2"}   \* response ids of SpecTrack
\* Date.now() when the page is loaded: no reading of the clock is within the
\* agent cooldown of 0, the initial lastScheduledSendRef.  Time advances by
\* the shortest of the timers, which divides the others.
Epoch == AgentCooldownMs
TickMs == AutoStartMs
Runtimes == {"openai", "gemini"}
\* useState<ScheduledMessage[]>: the delay of each of the four messages, 0
\* where it has none.
ScheduledDelays == << 0, 1000, 0, 0 >>
\* The text of an AgentMessage by its length when trimmed: a short text
\* padded with blanks to more than ten characters, and a sentence.
AgentTexts == [undefined |-> -1, padded |-> 2, long |-> 40]
\* What the server sends while the scheduler runs: agent messages, and audio
\* frames of 960 bytes of PCM.
SchedulerMessages ==
    { [id |-> "m1", hasData |-> TRUE, name |-> "AgentMessage", chunk |-> "undefined",
       response_id |-> "r1", text |-> t] : t \in {"padded", "long"} }
    \cup { [id |-> "m1", hasData |-> TRUE, name |-> "AudioFrame", chunk |-> "pcm",
            response_id |-> "r1", text |-> "undefined"] }

VARIABLES
    \* fields of AudioPlayer
    audioContext,        \* "null" | "suspended" | "running" (AudioContext.state)
    gainNode,            \* TRUE iff this.gainNode is not null
    gain,                \* gainNode.gain.value as a script reads it, in thousandths
    gainLevel,           \* the level the gain node applies: the latest event of
                         \* the parameter's automation timeline, in thousandths
    isEnabled,
    isMuted,
    processedIds,        \* Set<string> as the sequence of its insertion order
    frameCount,
    microphoneActive,
    originalVolume,
    nextPlaybackTime,
    currentResponseId,
    activeAudioSources,  \* set of source nodes, each named by the call that made it
    \* the browser
    currentTime,         \* audioContext.currentTime
    pendingResume,       \* calls awaiting the promise of audioContext.resume()
    microtasks,          \* continuations ready to run: <<call, "fulfilled"|"rejected">>
    endedFired,          \* sources whose ended event has been dispatched
    \* observation
    calls,               \* one record per playAudioChunk invocation
    scheduled,           \* calls in the order their src.start() ran
    stopCount,           \* stopAllAudio invocations so far
    stoppedSources,      \* sources halted by source.stop()
    initCalled,          \* initialize() has been invoked
    controlOps,          \* control operations so far
    dedup,               \* the latest isDuplicate call and the ids issued so far
    lastStats,           \* what getStats() returned, if it was the latest operation
    lastCall,            \* the latest call as its caller saw it, where a caller keeps it
    \* the application around the player
    wsClient,            \* DebugWebSocketClient: its fields, its timers, what it sent
    app,                 \* App: React state, the handlers' closures, the events received
    micManager,          \* MicrophoneManager: isRecording and its start() calls in flight
    decoder              \* a base64 payload and what the PCM decoder made of it

vars == << audioContext, gainNode, gain, gainLevel, isEnabled, isMuted, processedIds,
           frameCount, microphoneActive, originalVolume, nextPlaybackTime,
           currentResponseId, activeAudioSources, currentTime, pendingResume,
           microtasks, endedFired, calls, scheduled, stopCount,
           stoppedSources, initCalled, controlOps, dedup, lastStats, lastCall,
           wsClient, app, micManager, decoder >>

appVars == << wsClient, app, micManager, decoder >>

playerVars == << audioContext, gainNode, gain, gainLevel, isEnabled, isMuted, processedIds,
                 frameCount, microphoneActive, originalVolume, nextPlaybackTime,
                 currentResponseId, activeAudioSources >>

Range(s) == { s[i] : i \in 1..Len(s) }
Max(a, b) == IF a >= b THEN a ELSE b
Min(a, b) == IF a <= b THEN a ELSE b

NoStats == [frameCount |-> -1, activeSourcesCount |-> -1,
            currentResponseId |-> NoResponseId, isEnabled |-> FALSE, isMuted |-> FALSE]

\* A caller's record of a call: the method, its argument (percent for
\* setVolume, arg for the others), what it returned, and what held when the
\* call was made: the output level and what isMicrophoneActive() returned.
NoCall == [op |-> "none", arg |-> "none", percent |-> 0, result |-> "void",
           level |-> 0, active |-> FALSE]
Bool(b) == IF b THEN "true" ELSE "false"

\* new AudioPlayer(config): the field initialisers; the configuration the
\* application passes repeats the defaults.
PlayerInit ==
    /\ audioContext = "null"
    /\ gainNode = FALSE
    /\ gain = 0
    /\ gainLevel = 0
    /\ isEnabled = FALSE
    /\ isMuted = FALSE
    /\ processedIds = << >>
    /\ frameCount = 0
    /\ microphoneActive = FALSE
    /\ originalVolume = 500
    /\ nextPlaybackTime = 0
    /\ currentResponseId = NoResponseId
    /\ activeAudioSources = {}
    /\ currentTime = 0
    /\ pendingResume = << >>
    /\ microtasks = << >>
    /\ endedFired = {}
    /\ calls = << >>
    /\ scheduled = << >>
    /\ stopCount = 0
    /\ stoppedSources = {}
    /\ initCalled = FALSE
    /\ controlOps = 0
    /\ dedup = [fresh |-> 0, reinserts |-> 0, frameId |-> NoFrameId, dup |-> FALSE]
    /\ lastStats = NoStats
    /\ lastCall = NoCall

\* A client not yet connected (socket null).  Besides its fields: the
\* connections its sockets have established so far (the latest is the current
\* one), the setTimeout callbacks pending, the socket events received, the
\* ids drawn for events, and the log of conversation_ready events received
\* and messages sent.
NewClient == [socket |-> "null", isConnected |-> FALSE, conversationInfo |-> FALSE,
              connection |-> 0, timers |-> << >>, received |-> 0, uuids |-> 0,
              log |-> << >>]

\* useState(false) twice; closure is what the handlers made by the latest
\* render hold of the two; events is what the debug_event handler was given.
NoTimer == [deadline |-> -1, idx |-> -1]

\* The message scheduler of App: the state (runtime, schedulerEnabled,
\* schedulerCompleted, currentMessageIndex), what the latest render gave
\* handleManualSchedulerTrigger of it (closure), the refs, and the timers of
\* the automatic start.  Besides: when the "Send Next Message Now" button
\* began its own cooldown, Date.now(), the clicks on the two buttons, the
\* number of times the scheduler was switched on, and the scheduled messages
\* sent.
NewScheduler ==
    [runtime |-> "openai", schedulerEnabled |-> FALSE, schedulerCompleted |-> FALSE,
     currentMessageIndex |-> 0,
     closure |-> [schedulerEnabled |-> FALSE],
     schedulerEnabledRef |-> FALSE, currentMessageIndexRef |-> 0,
     lastScheduledSendRef |-> 0, schedulerCooldownRef |-> NoTimer,
     lastAudioFrameRef |-> 0, audioSilenceTimerRef |-> NoTimer,
     pendingAgentMessageRef |-> FALSE,
     autoStart |-> {}, cooldownClickedAt |-> 0,
     now |-> Epoch, clicks |-> 0, run |-> 0, sent |-> << >>]

\* clients counts the clients constructed by handleConnect; orphans are the
\* earlier ones that were replaced while their socket was still open.
NewApp == [isConnected |-> FALSE, isMicActive |-> FALSE,
           closure |-> [isConnected |-> FALSE, isMicActive |-> FALSE],
           wsClientRef |-> FALSE, events |-> << >>,
           clients |-> 0, orphans |-> << >>,
           scheduler |-> NewScheduler]

\* isRecording = false; awaiting: start() calls at `await getUserMedia`;
\* resumed: continuations of handleToggleMic ready to run as microtasks.
NewMicrophoneManager == [isRecording |-> FALSE, awaiting |-> 0, resumed |-> 0]

NoPayload == [state |-> "none", base64 |-> << >>, valid |-> FALSE, bytes |-> << >>,
              ok |-> FALSE, thrownAt |-> "none", length |-> 0, duration |-> 0,
              channelData |-> << >>]

AppInit ==
    /\ wsClient = NewClient
    /\ app = NewApp
    /\ micManager = NewMicrophoneManager

Init == PlayerInit /\ AppInit /\ decoder = NoPayload

\* The event loop is between tasks: no continuation is waiting to run.
Idle == microtasks = << >>

\* ------------------------------------------------------- frame deduplicator

\* Variant: the trim deletes the newest 100 ids (slice(-100)).
cleanupProcessedIds_trimsNewest(ids) ==
    IF Len(ids) > MaxProcessedIds
    THEN SubSeq(ids, 1, Len(ids) - TrimCount)
    ELSE ids

\* cleanupProcessedIds(): once the set holds more than 1000 ids, delete the
\* first 100 of Array.from(set), which lists a Set in insertion order.
cleanupProcessedIds(ids) ==
    IF Len(ids) > MaxProcessedIds
    THEN LET toRemove == Range(SubSeq(ids, 1, Min(TrimCount, Len(ids))))
         IN SelectSeq(ids, LAMBDA x : x \notin toRemove)
    ELSE ids

\* Variant: a new id is reported as new but never recorded.
isDuplicate_neverRecords(ids, frameId) ==
    [dup |-> frameId # NoFrameId /\ frameId \in Range(ids), ids |-> ids]

\* Variant: without `if (!frameId) return false`, an absent id is tracked
\* like any other.
isDuplicate_recordsAnonymous(ids, frameId) ==
    IF frameId \in Range(ids) THEN [dup |-> TRUE, ids |-> ids]
    ELSE [dup |-> FALSE, ids |-> cleanupProcessedIds(Append(ids, frameId))]

\* isDuplicate(frameId): the answer, and the set as the call leaves it.
isDuplicate(ids, frameId) ==
    IF frameId = NoFrameId THEN [dup |-> FALSE, ids |-> ids]
    ELSE IF frameId \in Range(ids) THEN [dup |-> TRUE, ids |-> ids]
    ELSE [dup |-> FALSE, ids |-> cleanupProcessedIds(Append(ids, frameId))]

\* ------------------------------------------------------------ PCM decoder

\* convertPcmToAudioBuffer(base64Data) on the payload's decoded bytes.
\* samples = byteLength / bytesPerSample is not rounded: createBuffer takes
\* its integer part as the length (and throws on 0), and the copy loop runs
\* while i < samples, so a trailing partial sample makes getInt16 read past
\* the end of the bytes and throw.  The duration is length / sampleRate.
convertPcmToAudioBuffer(p) ==
    LET bytesPerSample == BitDepth \div 8
        length == p.byteLength \div bytesPerSample
        partial == (p.byteLength % bytesPerSample) # 0
    IN IF ~p.valid
       THEN [ok |-> FALSE, thrownAt |-> "atob", length |-> 0, duration |-> 0]
       ELSE IF length = 0
       THEN [ok |-> FALSE, thrownAt |-> "createBuffer", length |-> 0, duration |-> 0]
       ELSE IF partial
       THEN [ok |-> FALSE, thrownAt |-> "getInt16", length |-> 0, duration |-> 0]
       ELSE [ok |-> TRUE, thrownAt |-> "none", length |-> length,
             duration |-> (length * 1000) \div SampleRate]

\* window.atob(base64) on a string of base64 characters, given by their 6-bit
\* values with the padding removed.  A string whose length is 1 modulo 4 is
\* rejected (InvalidCharacterError); otherwise every full 8 bits make one
\* character of the binary string and the bits left over are discarded.
atob(base64) ==
    LET n == Len(base64)
        sextet(i) == IF i <= n THEN base64[i] ELSE 0
        char(k) ==
            LET g == 4 * ((k - 1) \div 3)
                pos == (k - 1) % 3
            IN IF pos = 0 THEN sextet(g + 1) * 4 + sextet(g + 2) \div 16
               ELSE IF pos = 1 THEN (sextet(g + 2) % 16) * 16 + sextet(g + 3) \div 4
               ELSE (sextet(g + 3) % 4) * 64 + sextet(g + 4)
    IN IF n % 4 = 1 THEN [valid |-> FALSE, binaryString |-> << >>]
       ELSE [valid |-> TRUE, binaryString |-> [k \in 1..((n * 6) \div 8) |-> char(k)]]

\* base64ToArrayBuffer(base64): bytes[i] = binaryString.charCodeAt(i)
base64ToArrayBuffer(base64) ==
    LET a == atob(base64)
    IN [valid |-> a.valid, bytes |-> [i \in 1..Len(a.binaryString) |-> a.binaryString[i]]]

\* Variant: the two bytes are read most significant first.
getInt16_bigEndian(bytes, byteOffset) ==
    LET u == 256 * bytes[byteOffset + 1] + bytes[byteOffset + 2]
    IN IF u >= 32768 THEN u - 65536 ELSE u

\* dataView.getInt16(byteOffset, true): two bytes, least significant first,
\* as a two's complement integer.
getInt16(bytes, byteOffset) ==
    LET u == bytes[byteOffset + 1] + 256 * bytes[byteOffset + 2]
    IN IF u >= 32768 THEN u - 65536 ELSE u

\* Math.pow(2, this.bitDepth - 1)
normalizationFactor == 2 ^ (BitDepth - 1)

\* Sample values are kept in units of 1/32768, in which every quotient
\* sample / normalizationFactor of the 16-bit format is an integer.
SampleUnit == 32768

\* The copy loop: channelData[i] = getInt16(i * bytesPerSample, true) /
\* normalizationFactor, for the samples of a buffer that was created.
channelData(bytes, length) ==
    [i \in 1..length |->
        (getInt16(bytes, (i - 1) * (BitDepth \div 8)) * SampleUnit) \div normalizationFactor]

\* ------------------------------------------------------ playback scheduler

\* The statements of playAudioChunk that lie inside its try block.
TryBlock == {"resume", "atob", "createBuffer", "getInt16"}

\* Variant: the await of resume() sits before the try block.
onThrow_resumeOutsideTry(point) ==
    IF point \in TryBlock \ {"resume"} THEN "false" ELSE "rejected"

\* What the promise returned by playAudioChunk settles to when a statement
\* throws: the catch clause returns false, anything else rejects.
onThrow(point) == IF point \in TryBlock THEN "false" ELSE "rejected"

\* Variant: the cursor is used as it is, without the lookahead test.
scheduleStart_noLookahead(cursor, now) == cursor

\* Variant: every chunk is scheduled from the clock, whatever is queued.
scheduleStart_alwaysFromClock(cursor, now) == now + LookaheadMs

\* if (this.nextPlaybackTime < now + 0.05) this.nextPlaybackTime = now + 0.05
scheduleStart(cursor, now) ==
    IF cursor < now + LookaheadMs THEN now + LookaheadMs ELSE cursor

\* Variant: the cursor advances by the gap only.
advanceCursor_gapOnly(start, duration) == start + GapMs

\* this.nextPlaybackTime += audioBuffer.duration + 0.01
advanceCursor(start, duration) == start + duration + GapMs

\* Variant: without the `responseId &&` test.
trackResponse_storesAbsent(current, responseId) ==
    IF responseId # current THEN responseId ELSE current

\* if (responseId && responseId !== this.currentResponseId) ...
trackResponse(current, responseId) ==
    IF responseId # NoResponseId /\ responseId # current THEN responseId ELSE current

NewCall(frameId, payload) ==
    [frameId |-> frameId, payload |-> payload, result |-> "pending",
     gate |-> "passed", invokedEpoch |-> stopCount, started |-> FALSE,
     start |-> 0, duration |-> 0, now |-> 0, schedEpoch |-> 0]

\* Variant: the source is registered and the frame counted before the
\* payload is decoded.
PlayTail_registersBeforeDecode(id, cs) ==
    LET buf == convertPcmToAudioBuffer(cs[id].payload)
        now == currentTime
        start == scheduleStart(nextPlaybackTime, now)
    IN IF ~buf.ok
       THEN /\ calls' = [cs EXCEPT ![id].result = onThrow(buf.thrownAt)]
            /\ activeAudioSources' = activeAudioSources \cup {id}
            /\ frameCount' = frameCount + 1
            /\ UNCHANGED << nextPlaybackTime, scheduled >>
       ELSE /\ activeAudioSources' = activeAudioSources \cup {id}
            /\ nextPlaybackTime' = advanceCursor(start, buf.duration)
            /\ frameCount' = frameCount + 1
            /\ scheduled' = Append(scheduled, id)
            /\ calls' = [cs EXCEPT ![id].result = "true", ![id].started = TRUE,
                                   ![id].start = start, ![id].duration = buf.duration,
                                   ![id].now = now, ![id].schedEpoch = stopCount]

\* playAudioChunk from convertPcmToAudioBuffer to its return, for call id whose
\* record is cs[id]: decode, register the source, schedule, advance the cursor.
PlayTail(id, cs) ==
    LET buf == convertPcmToAudioBuffer(cs[id].payload)
        now == currentTime
        start == scheduleStart(nextPlaybackTime, now)
    IN IF ~buf.ok
       THEN /\ calls' = [cs EXCEPT ![id].result = onThrow(buf.thrownAt)]
            /\ UNCHANGED << activeAudioSources, nextPlaybackTime, frameCount, scheduled >>
       ELSE /\ activeAudioSources' = activeAudioSources \cup {id}
            /\ nextPlaybackTime' = advanceCursor(start, buf.duration)
            /\ frameCount' = frameCount + 1
            /\ scheduled' = Append(scheduled, id)
            /\ calls' = [cs EXCEPT ![id].result = "true", ![id].started = TRUE,
                                   ![id].start = start, ![id].duration = buf.duration,
                                   ![id].now = now, ![id].schedEpoch = stopCount]

\* Variant: the entry test forgets the mute flag.
notReady_ignoresMute == ~isEnabled \/ audioContext = "null"

\* if (!this.isEnabled || !this.audioContext || this.isMuted) return false
notReady == ~isEnabled \/ audioContext = "null" \/ isMuted

\* async playAudioChunk(base64Data, frameId, responseId), up to its first
\* await or, when the context is running, to its return.
playAudioChunk(base64Data, frameId, responseId) ==
    /\ Idle
    /\ LET id == Len(calls) + 1
           c == NewCall(frameId, base64Data)
           d == isDuplicate(processedIds, frameId)
       IN IF notReady
          THEN /\ calls' = Append(calls, [c EXCEPT !.result = "false",
                                 !.gate = "notReady"])
               /\ UNCHANGED << processedIds, currentResponseId, pendingResume,
                               activeAudioSources, nextPlaybackTime, frameCount, scheduled >>
          ELSE IF d.dup
          THEN /\ calls' = Append(calls, [c EXCEPT !.result = "false", !.gate = "duplicate"])
               /\ UNCHANGED << processedIds, currentResponseId, pendingResume,
                               activeAudioSources, nextPlaybackTime, frameCount, scheduled >>
          ELSE /\ processedIds' = d.ids
               /\ currentResponseId' = trackResponse(currentResponseId, responseId)
               /\ IF audioContext = "suspended"
                  THEN /\ pendingResume' = Append(pendingResume, id)
                       /\ calls' = Append(calls, c)
                       /\ UNCHANGED << activeAudioSources, nextPlaybackTime,
                                       frameCount, scheduled >>
                  ELSE /\ PlayTail(id, Append(calls, c))
                       /\ UNCHANGED pendingResume
    /\ UNCHANGED << audioContext, gainNode, gain, gainLevel, isEnabled, isMuted, microphoneActive,
                    originalVolume, currentTime, microtasks, endedFired, stopCount,
                    stoppedSources, initCalled, controlOps, dedup >>
    /\ lastStats' = NoStats

\* Variant: the suspended calls continue last in, first out.
resumeOrder_reversed(pending) == [i \in 1..Len(pending) |-> pending[Len(pending) + 1 - i]]

\* The order in which the calls suspended at `await this.audioContext.resume()`
\* continue: the browser settles the pending resume promises in the order
\* resume() was called, and promise reactions run in the order they are queued.
resumeOrder(pending) == pending

\* The browser settles the promises of audioContext.resume(): all pending
\* ones, in one task.  Fulfilled, the context is running.
ResumeSettled(outcome) ==
    /\ Idle
    /\ audioContext = "suspended"
    /\ pendingResume # << >>
    /\ microtasks' = [i \in 1..Len(pendingResume) |->
                          << resumeOrder(pendingResume)[i], outcome >>]
    /\ pendingResume' = << >>
    /\ audioContext' = IF outcome = "fulfilled" THEN "running" ELSE "suspended"
    /\ UNCHANGED << gainNode, gain, gainLevel, isEnabled, isMuted, processedIds, frameCount,
                    microphoneActive, originalVolume, nextPlaybackTime, currentResponseId,
                    activeAudioSources, currentTime, endedFired, calls, scheduled,
                    stopCount, stoppedSources, initCalled, controlOps, dedup >>
    /\ lastStats' = NoStats

\* The continuation of playAudioChunk after `await this.audioContext.resume()`.
PlayAudioChunkResumed ==
    /\ microtasks # << >>
    /\ LET id == Head(microtasks)[1]
           outcome == Head(microtasks)[2]
       IN IF outcome = "rejected"
          THEN /\ calls' = [calls EXCEPT ![id].result = onThrow("resume")]
               /\ UNCHANGED << activeAudioSources, nextPlaybackTime, frameCount, scheduled >>
          ELSE PlayTail(id, calls)
    /\ microtasks' = Tail(microtasks)
    /\ UNCHANGED << audioContext, gainNode, gain, gainLevel, isEnabled, isMuted, processedIds,
                    microphoneActive, originalVolume, currentResponseId, currentTime,
                    pendingResume, endedFired, stopCount, stoppedSources, initCalled,
                    controlOps, dedup >>
    /\ lastStats' = NoStats

\* Variant: stopAllAudio leaves the cursor where the queue had pushed it.
stopCursor_stale(cursor) == cursor

\* if (this.audioContext) this.nextPlaybackTime = this.audioContext.currentTime
stopCursor(cursor) == IF audioContext # "null" THEN currentTime ELSE cursor

\* Variant: stopAllAudio also resets the frame counter.
stopAllAudio_resetsCount ==
    /\ Idle
    /\ stopCount < MaxStops
    /\ stoppedSources' = stoppedSources \cup (activeAudioSources \ endedFired)
    /\ activeAudioSources' = {}
    /\ nextPlaybackTime' = stopCursor(nextPlaybackTime)
    /\ processedIds' = << >>
    /\ frameCount' = 0
    /\ stopCount' = stopCount + 1
    /\ UNCHANGED << audioContext, gainNode, gain, gainLevel, isEnabled, isMuted,
                    microphoneActive, originalVolume, currentResponseId, currentTime,
                    pendingResume, microtasks, endedFired, calls, scheduled, initCalled,
                    controlOps, dedup >>
    /\ lastStats' = NoStats

\* Variant: stopAllAudio without this.processedIds.clear().
stopAllAudio_keepsWindow ==
    /\ Idle
    /\ stopCount < MaxStops
    /\ stoppedSources' = stoppedSources \cup (activeAudioSources \ endedFired)
    /\ activeAudioSources' = {}
    /\ nextPlaybackTime' = stopCursor(nextPlaybackTime)
    /\ stopCount' = stopCount + 1
    /\ UNCHANGED << audioContext, gainNode, gain, gainLevel, isEnabled, isMuted, frameCount,
                    microphoneActive, originalVolume, currentResponseId, currentTime,
                    pendingResume, microtasks, endedFired, calls, scheduled, initCalled,
                    controlOps, dedup, processedIds >>
    /\ lastStats' = NoStats

\* stopAllAudio(): stop and forget every registered source, reset the cursor
\* to the audio clock, clear the dedup window.
stopAllAudio ==
    /\ Idle
    /\ stopCount < MaxStops
    /\ stoppedSources' = stoppedSources \cup (activeAudioSources \ endedFired)
    /\ activeAudioSources' = {}
    /\ nextPlaybackTime' = stopCursor(nextPlaybackTime)
    /\ processedIds' = << >>
    /\ stopCount' = stopCount + 1
    /\ UNCHANGED << audioContext, gainNode, gain, gainLevel, isEnabled, isMuted, frameCount,
                    microphoneActive, originalVolume, currentResponseId, currentTime,
                    pendingResume, microtasks, endedFired, calls, scheduled, initCalled,
                    controlOps, dedup >>
    /\ lastStats' = NoStats

\* Variant: an interrupt naming a response other than the tracked one is
\* ignored.
interrupt_onlyTrackedResponse(responseId) ==
    IF responseId # NoResponseId /\ responseId # currentResponseId
    THEN /\ Idle
         /\ stopCount < MaxStops
         /\ UNCHANGED << playerVars, currentTime, pendingResume, microtasks, endedFired,
                         calls, scheduled, stopCount, stoppedSources, initCalled,
                         controlOps, dedup >>
         /\ lastStats' = NoStats
    ELSE stopAllAudio

\* interrupt(responseId): stopAllAudio(); the response id is only logged.
interrupt(responseId) ==
    LET targetResponseId == IF responseId # NoResponseId THEN responseId
                            ELSE currentResponseId
    IN stopAllAudio

\* Variant: the ended event of a started source may come at any time.
SourceEnded_atAnyTime(id) ==
    /\ Idle
    /\ id \in 1..Len(calls)
    /\ calls[id].started
    /\ id \notin endedFired
    /\ endedFired' = endedFired \cup {id}
    /\ activeAudioSources' = activeAudioSources \ {id}
    /\ UNCHANGED << audioContext, gainNode, gain, gainLevel, isEnabled, isMuted, processedIds,
                    frameCount, microphoneActive, originalVolume, nextPlaybackTime,
                    currentResponseId, currentTime, pendingResume, microtasks, calls,
                    scheduled, stopCount, stoppedSources, initCalled, controlOps, dedup >>
    /\ lastStats' = NoStats

\* Variant: the callback empties the active set.
SourceEnded_clearsSet(id) ==
    /\ Idle
    /\ id \in 1..Len(calls)
    /\ calls[id].started
    /\ id \notin endedFired
    /\ \/ id \in stoppedSources
       \/ audioContext = "running" /\ currentTime >= calls[id].start + calls[id].duration
    /\ endedFired' = endedFired \cup {id}
    /\ activeAudioSources' = {}
    /\ UNCHANGED << audioContext, gainNode, gain, gainLevel, isEnabled, isMuted, processedIds,
                    frameCount, microphoneActive, originalVolume, nextPlaybackTime,
                    currentResponseId, currentTime, pendingResume, microtasks, calls,
                    scheduled, stopCount, stoppedSources, initCalled, controlOps, dedup >>
    /\ lastStats' = NoStats

\* src.onended: the ended event of a source that played to its end or was
\* stopped; the callback deletes that source from the active set.
SourceEnded(id) ==
    /\ Idle
    /\ id \in 1..Len(calls)
    /\ calls[id].started
    /\ id \notin endedFired
    /\ \/ id \in stoppedSources
       \/ audioContext = "running" /\ currentTime >= calls[id].start + calls[id].duration
    /\ endedFired' = endedFired \cup {id}
    /\ activeAudioSources' = activeAudioSources \ {id}
    /\ UNCHANGED << audioContext, gainNode, gain, gainLevel, isEnabled, isMuted, processedIds,
                    frameCount, microphoneActive, originalVolume, nextPlaybackTime,
                    currentResponseId, currentTime, pendingResume, microtasks, calls,
                    scheduled, stopCount, stoppedSources, initCalled, controlOps, dedup >>
    /\ lastStats' = NoStats

\* The audio clock advances while the context is running: the audio thread
\* has rendered, so gain.value has caught up with the automation timeline.
Tick(d) ==
    /\ Idle
    /\ audioContext = "running"
    /\ currentTime + d <= MaxClock
    /\ currentTime' = currentTime + d
    /\ gain' = gainLevel
    /\ UNCHANGED << audioContext, gainNode, gainLevel, isEnabled, isMuted, processedIds,
                    frameCount, microphoneActive, originalVolume, nextPlaybackTime,
                    currentResponseId, activeAudioSources, pendingResume, microtasks, endedFired, calls, scheduled,
                    stopCount, stoppedSources, initCalled, controlOps, dedup >>
    /\ lastStats' = NoStats

\* return true (line 174)
interruptResult == TRUE

\* ------------------------------------------------- lifecycle, gain, ducking

InitSteps == {"none", "AudioContext", "createGain", "createAnalyser"}

\* Variant: the catch clause drops the audio context.
initialize_dropsContext(failAt, state) ==
    /\ Idle
    /\ initCalled' = TRUE
    /\ IF failAt = "none"
       THEN audioContext' = state /\ currentTime' = 0
       ELSE audioContext' = "null" /\ UNCHANGED currentTime
    /\ IF failAt \in {"AudioContext", "createGain"}
       THEN UNCHANGED << gainNode, gain, gainLevel >>
       ELSE gainNode' = TRUE /\ gain' = DefaultGain /\ gainLevel' = DefaultGain
    /\ isEnabled' = IF failAt = "none" THEN TRUE ELSE isEnabled
    /\ UNCHANGED << isMuted, processedIds, frameCount, microphoneActive, originalVolume,
                    nextPlaybackTime, currentResponseId, activeAudioSources, pendingResume,
                    microtasks, endedFired, calls, scheduled, stopCount, stoppedSources,
                    controlOps, dedup >>
    /\ lastStats' = NoStats

\* Variant: isEnabled is set before the audio graph is built.
initialize_enablesFirst(failAt, state) ==
    /\ Idle
    /\ initCalled' = TRUE
    /\ IF failAt = "AudioContext"
       THEN UNCHANGED << audioContext, currentTime >>
       ELSE audioContext' = state /\ currentTime' = 0
    /\ IF failAt \in {"AudioContext", "createGain"}
       THEN UNCHANGED << gainNode, gain, gainLevel >>
       ELSE gainNode' = TRUE /\ gain' = DefaultGain /\ gainLevel' = DefaultGain
    /\ isEnabled' = TRUE
    /\ UNCHANGED << isMuted, processedIds, frameCount, microphoneActive, originalVolume,
                    nextPlaybackTime, currentResponseId, activeAudioSources, pendingResume,
                    microtasks, endedFired, calls, scheduled, stopCount, stoppedSources,
                    controlOps, dedup >>
    /\ lastStats' = NoStats

\* initialize(): failAt names the statement that throws ("none": success);
\* state is the state the browser gives the new context.  The statements
\* before the throwing one have taken effect when the catch returns false.
initialize(failAt, state) ==
    /\ Idle
    /\ initCalled' = TRUE
    /\ IF failAt = "AudioContext"
       THEN UNCHANGED << audioContext, currentTime >>
       ELSE audioContext' = state /\ currentTime' = 0
    /\ IF failAt \in {"AudioContext", "createGain"}
       THEN UNCHANGED << gainNode, gain, gainLevel >>
       ELSE gainNode' = TRUE /\ gain' = DefaultGain /\ gainLevel' = DefaultGain
    /\ isEnabled' = IF failAt = "none" THEN TRUE ELSE isEnabled
    /\ UNCHANGED << isMuted, processedIds, frameCount, microphoneActive, originalVolume,
                    nextPlaybackTime, currentResponseId, activeAudioSources, pendingResume,
                    microtasks, endedFired, calls, scheduled, stopCount, stoppedSources,
                    controlOps, dedup >>
    /\ lastStats' = NoStats

\* Variant: the volume is not capped at 1.
clampVolume_noUpperBound(volume) == Max(0, volume * 10)

\* return true at the end of the try block, return false in the catch
initializeResult(failAt) == failAt = "none"

\* Math.max(0, Math.min(1, volume / 100)), in thousandths
clampVolume(volume) == Max(0, Min(1000, volume * 10))

\* setVolume(volume).  Assigning gain.value takes effect at once: it sets the
\* value a script reads and puts the same value on the automation timeline.
setVolume(volume) ==
    /\ Idle
    /\ controlOps' = controlOps + 1
    /\ IF gainNode /\ ~isMuted
       THEN gain' = clampVolume(volume) /\ gainLevel' = clampVolume(volume)
       ELSE UNCHANGED << gain, gainLevel >>
    /\ UNCHANGED << audioContext, gainNode, isEnabled, isMuted, processedIds, frameCount,
                    microphoneActive, originalVolume, nextPlaybackTime, currentResponseId,
                    activeAudioSources, currentTime, pendingResume, microtasks, endedFired,
                    calls, scheduled, stopCount, stoppedSources, initCalled, dedup >>
    /\ lastStats' = NoStats

\* Variant: unmuting puts back the level saved by the ducking.
toggleMute_restoresSaved ==
    /\ Idle
    /\ isMuted' = ~isMuted
    /\ IF gainNode
       THEN /\ gain' = (IF isMuted' THEN 0 ELSE originalVolume)
            /\ gainLevel' = (IF isMuted' THEN 0 ELSE originalVolume)
       ELSE UNCHANGED << gain, gainLevel >>
    /\ UNCHANGED << audioContext, gainNode, isEnabled, processedIds, frameCount,
                    microphoneActive, originalVolume, nextPlaybackTime, currentResponseId,
                    activeAudioSources, currentTime, pendingResume, microtasks, endedFired,
                    calls, scheduled, stopCount, stoppedSources, initCalled, controlOps,
                    dedup >>
    /\ lastStats' = NoStats

\* toggleMute()
toggleMute ==
    /\ Idle
    /\ isMuted' = ~isMuted
    /\ IF gainNode
       THEN /\ gain' = (IF isMuted' THEN 0 ELSE UnmuteGain)
            /\ gainLevel' = (IF isMuted' THEN 0 ELSE UnmuteGain)
       ELSE UNCHANGED << gain, gainLevel >>
    /\ UNCHANGED << audioContext, gainNode, isEnabled, processedIds, frameCount,
                    microphoneActive, originalVolume, nextPlaybackTime, currentResponseId,
                    activeAudioSources, currentTime, pendingResume, microtasks, endedFired,
                    calls, scheduled, stopCount, stoppedSources, initCalled, controlOps,
                    dedup >>
    /\ lastStats' = NoStats

\* return this.isMuted, read after the flip
toggleMuteResult == isMuted'

\* this.originalVolume * 0.3
duck(level) == (level * DuckTenths) \div 10

\* gain.setValueAtTime(level, currentTime) puts an event on the automation
\* timeline and leaves gain.value as it is: the audio thread moves gain.value
\* to the level when it renders its next block (Render).
setValueAtTime(level) ==
    /\ gainLevel' = level
    /\ UNCHANGED gain

\* The audio thread renders a block, which it does only while the context is
\* running: gain.value takes the value of the latest event of the timeline.
Render ==
    /\ Idle
    /\ audioContext = "running"
    /\ gain # gainLevel
    /\ gain' = gainLevel
    /\ UNCHANGED << audioContext, gainNode, gainLevel, isEnabled, isMuted, processedIds,
                    frameCount, microphoneActive, originalVolume, nextPlaybackTime,
                    currentResponseId, activeAudioSources, currentTime, pendingResume,
                    microtasks, endedFired, calls, scheduled, stopCount, stoppedSources,
                    initCalled, controlOps, dedup >>
    /\ lastStats' = NoStats

\* Variant: without the early return on an unchanged flag.
setMicrophoneActive_noGuard(active) ==
    /\ Idle
    /\ controlOps' = controlOps + 1
    /\ microphoneActive' = active
    /\ IF ~gainNode THEN UNCHANGED << originalVolume, gain, gainLevel >>
       ELSE IF active
       THEN /\ originalVolume' = gain
            /\ setValueAtTime(duck(gain))
       ELSE /\ setValueAtTime(originalVolume)
            /\ UNCHANGED originalVolume
    /\ UNCHANGED << audioContext, gainNode, isEnabled, isMuted, processedIds, frameCount,
                    nextPlaybackTime, currentResponseId, activeAudioSources, currentTime,
                    pendingResume, microtasks, endedFired, calls, scheduled, stopCount,
                    stoppedSources, initCalled, dedup >>
    /\ lastStats' = NoStats

\* setMicrophoneActive(active)
setMicrophoneActive(active) ==
    /\ Idle
    /\ controlOps' = controlOps + 1
    /\ IF microphoneActive = active
       THEN UNCHANGED << microphoneActive, originalVolume, gain, gainLevel >>
       ELSE /\ microphoneActive' = active
            /\ IF ~gainNode THEN UNCHANGED << originalVolume, gain, gainLevel >>
               ELSE IF active
               THEN /\ originalVolume' = gain
                    /\ setValueAtTime(duck(gain))
               ELSE /\ setValueAtTime(originalVolume)
                    /\ UNCHANGED originalVolume
    /\ UNCHANGED << audioContext, gainNode, isEnabled, isMuted, processedIds, frameCount,
                    nextPlaybackTime, currentResponseId, activeAudioSources, currentTime,
                    pendingResume, microtasks, endedFired, calls, scheduled, stopCount,
                    stoppedSources, initCalled, dedup >>
    /\ lastStats' = NoStats

\* Variant: the active count is the number of sources ever started.
getStats_countsStarted ==
    /\ Idle
    /\ lastStats' = [frameCount |-> frameCount,
                     activeSourcesCount |-> Len(scheduled),
                     currentResponseId |-> currentResponseId,
                     isEnabled |-> isEnabled, isMuted |-> isMuted]
    /\ UNCHANGED << playerVars, currentTime, pendingResume, microtasks, endedFired, calls,
                    scheduled, stopCount, stoppedSources, initCalled, controlOps, dedup >>

\* getStats()
getStats ==
    /\ Idle
    /\ lastStats' = [frameCount |-> frameCount,
                     activeSourcesCount |-> Cardinality(activeAudioSources),
                     currentResponseId |-> currentResponseId,
                     isEnabled |-> isEnabled, isMuted |-> isMuted]
    /\ UNCHANGED << playerVars, currentTime, pendingResume, microtasks, endedFired, calls,
                    scheduled, stopCount, stoppedSources, initCalled, controlOps, dedup >>

\* ------------------------------------------------------------ specification

\* The caller keeps the call it made and what came back.
Call(op, arg, percent, result) ==
    lastCall' = [op |-> op, arg |-> arg, percent |-> percent, result |-> result,
                 level |-> gainLevel, active |-> microphoneActive]

\* The caller keeps nothing.
Unobserved == lastCall' = NoCall

\* The step is the player's alone: nothing of the application around it moves.
Alone == UNCHANGED appVars

\* The application constructs one player and initializes it once
\* (src/src/App.tsx:89-96).
AppInitialize ==
    /\ ~initCalled
    /\ \E f \in InitSteps, st \in {"suspended", "running"} :
          initialize(f, st) /\ Call("initialize", f, 0, Bool(initializeResult(f)))
          /\ Alone

CallsBelow(n) == Len(calls) < n
ControlsBelow(n) == controlOps < n

\* The playback scheduler: audio frames, the audio context, stop and mute.
Next ==
    \/ AppInitialize
    \/ /\ CallsBelow(MaxCalls)
       /\ \E p \in Payloads, f \in FrameIds \cup {NoFrameId} : playAudioChunk(p, f, "r1")
       /\ Unobserved /\ Alone
    \/ \E o \in {"fulfilled", "rejected"} : ResumeSettled(o) /\ Unobserved /\ Alone
    \/ PlayAudioChunkResumed /\ Unobserved /\ Alone
    \/ stopAllAudio /\ Unobserved /\ Alone
    \/ \E r \in ResponseIds \cup {NoResponseId} : interrupt(r) /\ Unobserved /\ Alone
    \/ \E id \in 1..MaxCalls : SourceEnded(id) /\ Unobserved /\ Alone
    \/ \E d \in TickSteps : Tick(d) /\ Unobserved /\ Alone
    \/ toggleMute /\ Unobserved /\ Alone

Spec == Init /\ [][Next]_vars

\* Every operation of the player, on frames with one frame id and a clock
\* that advances in one step.
NextPlayer ==
    \/ AppInitialize
    \/ /\ CallsBelow(MaxCalls)
       /\ \E p \in Payloads : playAudioChunk(p, 1, "r1")
       /\ Unobserved /\ Alone
    \/ \E o \in {"fulfilled", "rejected"} : ResumeSettled(o) /\ Unobserved /\ Alone
    \/ PlayAudioChunkResumed /\ Unobserved /\ Alone
    \/ stopAllAudio /\ Unobserved /\ Alone
    \/ interrupt(NoResponseId) /\ Unobserved /\ Alone
    \/ \E id \in 1..MaxCalls : SourceEnded(id) /\ Unobserved /\ Alone
    \/ \E d \in PlayerTickSteps : Tick(d) /\ Unobserved /\ Alone
    \/ ControlsBelow(MaxControlOps) /\ (\E v \in Volumes : setVolume(v)) /\ Unobserved /\ Alone
    \/ toggleMute /\ Unobserved /\ Alone
    \/ /\ ControlsBelow(MaxControlOps)
       /\ \E a \in BOOLEAN : setMicrophoneActive(a)
       /\ Unobserved /\ Alone
    \/ getStats /\ Unobserved /\ Alone
    \/ Render /\ Unobserved /\ Alone

SpecPlayer == Init /\ [][NextPlayer]_vars

\* The order of playback: anonymous frames that decode, on a player whose
\* initialize() succeeds.
NextOrder ==
    \/ /\ ~initCalled
       /\ \E st \in {"suspended", "running"} : initialize("none", st)
       /\ Unobserved /\ Alone
    \/ /\ CallsBelow(MaxOrderCalls)
       /\ \E p \in { q \in Payloads : q.valid } : playAudioChunk(p, NoFrameId, NoResponseId)
       /\ Unobserved /\ Alone
    \/ ResumeSettled("fulfilled") /\ Unobserved /\ Alone
    \/ PlayAudioChunkResumed /\ Unobserved /\ Alone
    \/ stopAllAudio /\ Unobserved /\ Alone
    \/ \E d \in TickSteps : Tick(d) /\ Unobserved /\ Alone

SpecOrder == Init /\ [][NextOrder]_vars

\* Stopping: frames that decode, on an unmuted player, with stopAllAudio and
\* interrupt, every interrupt call kept by its caller.
NextStop ==
    \/ AppInitialize
    \/ /\ CallsBelow(MaxCalls)
       /\ \E p \in { q \in Payloads : q.valid }, f \in FrameIds \cup {NoFrameId} :
             playAudioChunk(p, f, "r1")
       /\ Unobserved /\ Alone
    \/ \E o \in {"fulfilled", "rejected"} : ResumeSettled(o) /\ Unobserved /\ Alone
    \/ PlayAudioChunkResumed /\ Unobserved /\ Alone
    \/ stopAllAudio /\ Unobserved /\ Alone
    \/ \E r \in ResponseIds \cup {NoResponseId} :
          interrupt(r) /\ Call("interrupt", r, 0, Bool(interruptResult)) /\ Alone
    \/ \E id \in 1..MaxCalls : SourceEnded(id) /\ Unobserved /\ Alone
    \/ \E d \in TickSteps : Tick(d) /\ Unobserved /\ Alone

SpecStop == Init /\ [][NextStop]_vars

\* The gain level alone: initialize and the three controls, every call kept
\* by its caller.
NextGain ==
    \/ AppInitialize
    \/ /\ ControlsBelow(MaxGainOps)
       /\ \E v \in GainVolumes : setVolume(v) /\ Call("setVolume", "none", v, "void") /\ Alone
    \/ toggleMute /\ Call("toggleMute", "none", 0, Bool(toggleMuteResult)) /\ Alone
    \/ /\ ControlsBelow(MaxGainOps)
       /\ \E a \in BOOLEAN :
             /\ setMicrophoneActive(a)
             /\ Call("setMicrophoneActive", Bool(a), 0, "void")
             /\ Alone
    \/ Render /\ UNCHANGED lastCall /\ Alone

SpecGain == Init /\ [][NextGain]_vars

\* The level the user selected last, kept next to the caller's record of the
\* call: the clamped value of a setVolume that was applied (line 131), or the
\* 0.5 that initialize (line 59) and an unmute (line 138) put in its place.
selectedLevel(op, percent) ==
    LET before == IF "selected" \in DOMAIN lastCall THEN lastCall.selected ELSE DefaultGain
    IN IF op = "initialize" THEN (IF gainNode' THEN DefaultGain ELSE before)
       ELSE IF op = "setVolume"
       THEN (IF gainNode /\ ~isMuted THEN clampVolume(percent) ELSE before)
       ELSE IF op = "toggleMute"
       THEN (IF gainNode /\ isMuted THEN UnmuteGain ELSE before)
       ELSE before

\* The caller keeps the call it made, what came back, and the level selected.
Chosen(op, arg, percent, result) ==
    lastCall' = [op |-> op, arg |-> arg, percent |-> percent, result |-> result,
                 level |-> gainLevel, active |-> microphoneActive,
                 selected |-> selectedLevel(op, percent)]

\* The volume the user selected: initialize and the three controls, with
\* the selected level kept along.
NextVolume ==
    \/ /\ ~initCalled
       /\ \E f \in InitSteps, st \in {"suspended", "running"} :
             initialize(f, st) /\ Chosen("initialize", f, 0, Bool(initializeResult(f)))
       /\ Alone
    \/ /\ ControlsBelow(MaxGainOps)
       /\ \E v \in GainVolumes : setVolume(v) /\ Chosen("setVolume", "none", v, "void")
       /\ Alone
    \/ toggleMute /\ Chosen("toggleMute", "none", 0, Bool(toggleMuteResult)) /\ Alone
    \/ /\ ControlsBelow(MaxGainOps)
       /\ \E a \in BOOLEAN :
             setMicrophoneActive(a) /\ Chosen("setMicrophoneActive", Bool(a), 0, "void")
       /\ Alone
    \/ Render /\ UNCHANGED lastCall /\ Alone

SpecVolume == Init /\ [][NextVolume]_vars

\* initialize() called any number of times on one player, at any moment
\* between tasks, among the operations that use the audio graph, with
\* frames of 20 ms.  A call awaiting resume() continues on the context in
\* place when it is resumed.
NextInit ==
    \/ /\ \E f \in InitSteps, st \in {"suspended", "running"} :
             initialize(f, st) /\ Call("initialize", f, 0, Bool(initializeResult(f)))
       /\ Alone
    \/ /\ CallsBelow(MaxCalls)
       /\ \E p \in {q \in Payloads : q.byteLength = 960} :
             playAudioChunk(p, NoFrameId, NoResponseId)
       /\ Unobserved /\ Alone
    \/ \E o \in {"fulfilled", "rejected"} : ResumeSettled(o) /\ Unobserved /\ Alone
    \/ PlayAudioChunkResumed /\ Unobserved /\ Alone
    \/ stopAllAudio /\ Unobserved /\ Alone
    \/ toggleMute /\ Unobserved /\ Alone
    \/ /\ ControlsBelow(MaxControlOps)
       /\ \E a \in BOOLEAN : setMicrophoneActive(a)
       /\ Unobserved /\ Alone

SpecInit == Init /\ [][NextInit]_vars

\* Response tracking: frames that decode, of two responses or naming none,
\* among every other operation of a player whose initialize() succeeds; the
\* caller keeps the response id it passed.
NextTrack ==
    \/ /\ ~initCalled
       /\ \E st \in {"suspended", "running"} : initialize("none", st)
       /\ Unobserved /\ Alone
    \/ /\ CallsBelow(MaxCalls)
       /\ \E f \in FrameIds \cup {NoFrameId}, r \in TrackedResponseIds \cup {NoResponseId} :
             /\ playAudioChunk([valid |-> TRUE, byteLength |-> 960], f, r)
             /\ Call("playAudioChunk", r, 0, "void")
             /\ Alone
    \/ ResumeSettled("fulfilled") /\ Unobserved /\ Alone
    \/ PlayAudioChunkResumed /\ Unobserved /\ Alone
    \/ stopAllAudio /\ Unobserved /\ Alone
    \/ \E r \in TrackedResponseIds \cup {NoResponseId} : interrupt(r) /\ Unobserved /\ Alone
    \/ ControlsBelow(MaxControlOps) /\ (\E v \in Volumes : setVolume(v)) /\ Unobserved /\ Alone
    \/ toggleMute /\ Unobserved /\ Alone
    \/ /\ ControlsBelow(MaxControlOps)
       /\ \E a \in BOOLEAN : setMicrophoneActive(a)
       /\ Unobserved /\ Alone
    \/ getStats /\ Unobserved /\ Alone

SpecTrack == Init /\ [][NextTrack]_vars

\* Line 99 of playAudioChunk, this.convertPcmToAudioBuffer(base64Data), on the
\* payload at hand.
Decode ==
    /\ Idle
    /\ audioContext # "null"
    /\ decoder.state = "received"
    /\ LET b == base64ToArrayBuffer(decoder.base64)
           r == convertPcmToAudioBuffer([valid |-> b.valid, byteLength |-> Len(b.bytes)])
       IN decoder' = [state |-> "decoded", base64 |-> decoder.base64,
                      valid |-> b.valid, bytes |-> b.bytes,
                      ok |-> r.ok, thrownAt |-> r.thrownAt, length |-> r.length,
                      duration |-> r.duration,
                      channelData |-> IF r.ok THEN channelData(b.bytes, r.length)
                                      ELSE << >>]
    /\ UNCHANGED << playerVars, currentTime, pendingResume, microtasks, endedFired, calls,
                    scheduled, stopCount, stoppedSources, initCalled, controlOps, dedup,
                    wsClient, app, micManager >>
    /\ lastStats' = NoStats

\* The base64 payloads: every string of at most MaxBase64Chars characters.
Base64Strings == UNION { [1..n -> Sextets] : n \in 0..MaxBase64Chars }

InitDecode ==
    /\ PlayerInit
    /\ AppInit
    /\ decoder \in { [NoPayload EXCEPT !.state = "received", !.base64 = b] :
                        b \in Base64Strings }

\* The PCM decoder alone, on a player whose initialize() succeeded.
NextDecode ==
    \/ /\ ~initCalled
       /\ \E st \in {"suspended", "running"} : initialize("none", st)
       /\ Unobserved /\ Alone
    \/ Decode /\ Unobserved

SpecDecode == InitDecode /\ [][NextDecode]_vars

\* The dedup window alone: line 86 of playAudioChunk, this.isDuplicate(frameId),
\* for a new frame id or for one sent before.
isDuplicateCall(frameId) ==
    LET d == isDuplicate(processedIds, frameId)
        new == frameId = dedup.fresh + 1
        reinsert == ~new /\ ~d.dup
    IN /\ new => dedup.fresh < MaxFreshIds
       /\ reinsert => dedup.reinserts < MaxReinserts
       /\ processedIds' = d.ids
       /\ dedup' = [fresh |-> IF new THEN frameId ELSE dedup.fresh,
                    reinserts |-> dedup.reinserts + (IF reinsert THEN 1 ELSE 0),
                    frameId |-> frameId, dup |-> d.dup]
       /\ UNCHANGED << audioContext, gainNode, gain, gainLevel, isEnabled, isMuted, frameCount,
                       microphoneActive, originalVolume, nextPlaybackTime,
                       currentResponseId, activeAudioSources, currentTime, pendingResume,
                       microtasks, endedFired, calls, scheduled, stopCount,
                       stoppedSources, initCalled, controlOps >>
       /\ lastStats' = NoStats

\* Frame ids sent again: the oldest, and the first one that the first trim keeps.
ResendIds == {1, TrimCount + 1}

NextDedup ==
    \/ isDuplicateCall(dedup.fresh + 1) /\ Unobserved /\ Alone
    \/ \E f \in { g \in ResendIds : g <= dedup.fresh } : isDuplicateCall(f) /\ Unobserved /\ Alone

SpecDedup == Init /\ [][NextDedup]_vars

\* ---------------------------------------------------- the WebSocket client
\* DebugWebSocketClient (imported by the application as ./lib/websocket-client).
\* Its socket is "null", "connecting", "connected", "closed" (the server
\* ended the connection) or "reconnecting" (the transport was lost and
\* socket.io is reconnecting).

\* connect()
connect(c) ==
    IF c.socket # "null" THEN c ELSE [c EXCEPT !.socket = "connecting"]

\* disconnect()
disconnect(c) ==
    [c EXCEPT !.socket = "null", !.isConnected = FALSE, !.conversationInfo = FALSE]

\* this.socket.on('connect', ...)
onSocketConnect(c) ==
    [c EXCEPT !.socket = "connected", !.isConnected = TRUE, !.connection = @ + 1]

\* this.socket.on('disconnect', ...); fate is what becomes of the socket.
onSocketDisconnect(c, fate) ==
    [c EXCEPT !.socket = fate, !.isConnected = FALSE]

LogEntry(c, kind) == [kind |-> kind, connection |-> c.connection, socket |-> c.socket]

\* this.socket.on('conversation_ready', ...): data carrying the three fields
\* is stored, and sendUserIdentification is set to run after 100 ms.
onConversationReady(c, wellFormed) ==
    IF wellFormed
    THEN [c EXCEPT !.conversationInfo = TRUE, !.received = @ + 1,
                   !.log = Append(@, LogEntry(c, "conversation_ready")),
                   !.timers = Append(@, "sendUserIdentification")]
    ELSE [c EXCEPT !.received = @ + 1]

\* sendUserIdentification(): emits the User message and sets
\* sendInitialAudioFrame to run after 150 ms.
sendUserIdentification(c) ==
    IF c.socket = "null" \/ ~c.isConnected THEN c
    ELSE [c EXCEPT !.log = Append(@, LogEntry(c, "User")),
                   !.timers = Append(@, "sendInitialAudioFrame")]

\* sendInitialAudioFrame(): emits the AudioFrame2 with the company metadata.
sendInitialAudioFrame(c) ==
    IF c.socket = "null" \/ ~c.isConnected THEN c
    ELSE [c EXCEPT !.log = Append(@, LogEntry(c, "SessionTrigger"))]

\* MicrophoneManager.stop()
stop(m) == [m EXCEPT !.isRecording = FALSE]

\* No method of the player runs in the step.
PlayerUntouched ==
    UNCHANGED << playerVars, currentTime, pendingResume, microtasks, endedFired, calls,
                 scheduled, stopCount, stoppedSources, initCalled, controlOps, dedup,
                 lastStats >>

\* Variant: the handler leaves the player's ducking as it is.
onDisconnected_withoutPlayer ==
    /\ app' = [app EXCEPT !.isConnected = FALSE, !.isMicActive = FALSE]
    /\ micManager' = stop(micManager)
    /\ PlayerUntouched

\* client.on('disconnected', ...) of the application: setIsConnected(false),
\* setIsMicActive(false), micManager.stop(), setMicrophoneActive(false).
onDisconnected ==
    /\ app' = [app EXCEPT !.isConnected = FALSE, !.isMicActive = FALSE]
    /\ micManager' = stop(micManager)
    /\ setMicrophoneActive(FALSE)

\* Tasks run one at a time, each after the microtasks of the one before.
BetweenTasks == Idle /\ micManager.resumed = 0

\* client.connect() is called.
ClientConnect ==
    /\ BetweenTasks
    /\ wsClient' = connect(wsClient)
    /\ UNCHANGED << app, micManager, decoder >>
    /\ PlayerUntouched

\* client.disconnect() is called.  socket.disconnect() on a connected socket
\* dispatches the socket's disconnect event before it returns, which runs
\* the handlers of 'disconnected'.
ClientDisconnect ==
    /\ BetweenTasks
    /\ wsClient.socket # "null"
    /\ wsClient' = disconnect(wsClient)
    /\ IF wsClient.socket = "connected" THEN onDisconnected
       ELSE UNCHANGED << app, micManager >> /\ PlayerUntouched
    /\ UNCHANGED decoder

\* The socket's connect event: a first connection, or a reconnection by
\* socket.io; the application's handler of 'connected' sets isConnected.
SocketConnect ==
    /\ BetweenTasks
    /\ wsClient.socket \in {"connecting", "reconnecting"}
    /\ wsClient' = onSocketConnect(wsClient)
    /\ app' = [app EXCEPT !.isConnected = TRUE]
    /\ UNCHANGED << micManager, decoder >>
    /\ PlayerUntouched

\* The socket's disconnect event, the connection ended by the server
\* ("closed") or lost ("reconnecting").
SocketDisconnect(fate) ==
    /\ BetweenTasks
    /\ wsClient.socket = "connected"
    /\ wsClient' = onSocketDisconnect(wsClient, fate)
    /\ onDisconnected
    /\ UNCHANGED decoder

\* A conversation_ready event arrives on the connection.
ConversationReady(wellFormed) ==
    /\ BetweenTasks
    /\ wsClient.socket = "connected"
    /\ wsClient' = onConversationReady(wsClient, wellFormed)
    /\ UNCHANGED << app, micManager, decoder >>
    /\ PlayerUntouched

\* The i-th pending timer fires.  Timers of one delay fire in the order they
\* were set; a 100 ms one and a 150 ms one fire in either order, depending
\* on when they were set.
TimerFires(i) ==
    /\ BetweenTasks
    /\ i \in 1..Len(wsClient.timers)
    /\ \A j \in 1..(i - 1) : wsClient.timers[j] # wsClient.timers[i]
    /\ LET rest == [k \in 1..(Len(wsClient.timers) - 1) |->
                        IF k < i THEN wsClient.timers[k] ELSE wsClient.timers[k + 1]]
           c == [wsClient EXCEPT !.timers = rest]
       IN wsClient' = IF wsClient.timers[i] = "sendUserIdentification"
                      THEN sendUserIdentification(c)
                      ELSE sendInitialAudioFrame(c)
    /\ UNCHANGED << app, micManager, decoder >>
    /\ PlayerUntouched

\* this.socket.on('conversation_message', ...): an event with a data field
\* is turned into a debug_event, for which one id is drawn.
onConversationMessage(c, msg) ==
    [c EXCEPT !.received = @ + 1, !.uuids = @ + (IF msg.hasData THEN 1 ELSE 0)]

\* The EventMessage built on lines 427-434.  id: crypto.randomUUID(), an id
\* not drawn before; frame ids are integers here, so it is the next integer.
eventOf(c, msg) ==
    [id |-> c.uuids + 1, type |-> msg.name, chunk |-> msg.chunk,
     response_id |-> msg.response_id, upstream |-> msg.id,
     text |-> IF "text" \in DOMAIN msg THEN msg.text ELSE "undefined"]

\* JavaScript's reading of a chunk: as a condition, and under typeof.
truthy(chunk) == chunk \in {"number", "pcm"}
isString(chunk) == chunk \in {"empty", "pcm"}

\* Variant: the event type is not tested.
handsToPlayer_anyType(event) == truthy(event.chunk) /\ isString(event.chunk)

\* The two conditions of the debug_event handler (lines 202 and 207); the
\* event's payload is an object and audioPlayerRef.current is set at mount.
handsToPlayer(event) ==
    /\ event.type \in {"AudioFrame", "AudioFrame2"}
    /\ truthy(event.chunk) /\ isString(event.chunk)

\* What window.atob makes of a chunk that is handed to the player.
chunkPayload(chunk) ==
    IF chunk = "pcm" THEN [valid |-> TRUE, byteLength |-> 960]
    ELSE [valid |-> FALSE, byteLength |-> 0]

\* ------------------------------------------------- the message scheduler
\* The scheduler of App, as operators on its record s.

\* The index the callback of the send timer uses: currentIdx, read when
\* handleScheduledMessageSend set the timer (line 117).
timerIndex(s, timer) == timer.idx

\* "Move to next message" (lines 142-151 and 470-479)
moveToNext(s, currentIdx) ==
    IF currentIdx + 1 >= Len(ScheduledDelays)
    THEN [s EXCEPT !.schedulerEnabled = FALSE, !.schedulerCompleted = TRUE,
                   !.currentMessageIndex = 0]
    ELSE [s EXCEPT !.currentMessageIndex = currentIdx + 1]

\* A scheduled message goes out: the index of the message, Date.now(), who
\* sent it, the run of the scheduler, and when the last audio frame came.
Sent(s, idx, by) ==
    [idx |-> idx, at |-> s.now, by |-> by, run |-> s.run, audio |-> s.lastAudioFrameRef]

\* handleScheduledMessageSend(): clear the send timer, set a new one for the
\* current message, clear the pending agent message.
handleScheduledMessageSend(s) ==
    LET currentIdx == s.currentMessageIndexRef
        delay == Max(MinDelayMs, ScheduledDelays[currentIdx + 1])
    IN [s EXCEPT !.schedulerCooldownRef =
                     IF currentIdx < Len(ScheduledDelays)
                     THEN [deadline |-> s.now + delay, idx |-> currentIdx]
                     ELSE NoTimer,
                 !.pendingAgentMessageRef = FALSE]

\* The callback of the send timer (lines 125-153); connected:
\* wsClientRef.current && wsClientRef.current.getConnectionStatus().
onSendTimer(s, connected) ==
    LET currentIdx == timerIndex(s, s.schedulerCooldownRef)
        fired == [s EXCEPT !.schedulerCooldownRef = NoTimer]
    IN IF connected /\ s.schedulerEnabledRef
       THEN moveToNext([fired EXCEPT !.lastScheduledSendRef = s.now,
                                     !.sent = Append(@, Sent(s, currentIdx, "timer"))],
                       currentIdx)
       ELSE fired

\* handleManualSchedulerTrigger(), with the isConnected and schedulerEnabled
\* of the render that made it; sendMessage emits when the client is connected.
handleManualSchedulerTrigger(s, isConnected, schedulerEnabled, hasClient, connected) ==
    LET currentIdx == s.currentMessageIndexRef
    IN IF ~hasClient \/ ~isConnected \/ ~schedulerEnabled THEN s
       ELSE IF s.now - s.lastScheduledSendRef < ManualCooldownMs THEN s
       ELSE IF currentIdx >= Len(ScheduledDelays) THEN s
       ELSE moveToNext([s EXCEPT !.lastScheduledSendRef = s.now,
                                 !.sent = IF connected
                                          THEN Append(@, Sent(s, currentIdx, "manual"))
                                          ELSE @],
                       currentIdx)

\* agentText && typeof agentText === 'string' && agentText.trim().length > 10
qualifies(text) == AgentTexts[text] > MinAgentTextLength

\* The debug_event handler's part for the scheduler (lines 209-254): an audio
\* frame handed to the player is timed; a qualifying agent message outside
\* the cooldown sets the silence timer (Gemini) or the send timer.
onSchedulerEvent(s, event, handed) ==
    LET timed == IF handed THEN [s EXCEPT !.lastAudioFrameRef = s.now] ELSE s
    IN IF event.type = "AgentMessage" /\ timed.schedulerEnabledRef /\ qualifies(event.text)
       THEN IF timed.now - timed.lastScheduledSendRef < AgentCooldownMs THEN timed
            ELSE IF timed.runtime = "gemini"
            THEN [timed EXCEPT !.pendingAgentMessageRef = TRUE,
                               !.audioSilenceTimerRef =
                                   [deadline |-> timed.now + SilenceMs, idx |-> -1]]
            ELSE handleScheduledMessageSend(timed)
       ELSE timed

\* The callback of the audio silence timer (lines 239-247).
onSilenceTimer(s) ==
    LET fired == [s EXCEPT !.audioSilenceTimerRef = NoTimer]
        timeSinceLastAudio == s.now - s.lastAudioFrameRef
    IN IF s.pendingAgentMessageRef /\ timeSinceLastAudio >= SilenceMs
       THEN handleScheduledMessageSend(fired)
       ELSE fired

\* onToggleEnabled of the MessageScheduler (lines 524-537), with the
\* isConnected of the render that made it.
onToggleEnabled(s, isConnected) ==
    LET newEnabled == ~s.closure.schedulerEnabled
    IN [s EXCEPT !.schedulerEnabled = newEnabled,
                 !.currentMessageIndex = 0,
                 !.schedulerCompleted = FALSE,
                 !.clicks = @ + 1,
                 !.run = @ + (IF newEnabled THEN 1 ELSE 0),
                 !.autoStart =
                     IF newEnabled /\ isConnected /\ Len(ScheduledDelays) > 0
                     THEN @ \cup {[deadline |-> s.now + AutoStartMs,
                                   isConnected |-> isConnected,
                                   schedulerEnabled |-> s.closure.schedulerEnabled]}
                     ELSE @]

\* The scheduler's part of handleDisconnect (lines 362-372).
onUserDisconnect(s) ==
    [s EXCEPT !.schedulerEnabled = FALSE, !.schedulerCooldownRef = NoTimer,
              !.audioSilenceTimerRef = NoTimer, !.pendingAgentMessageRef = FALSE,
              !.lastAudioFrameRef = 0]

\* A render and its effects (lines 74-84): the handlers are made anew and
\* the refs take the state's values; the MessageScheduler ends its button's
\* cooldown when it is rendered disabled.
renderedScheduler(s) ==
    [s EXCEPT !.closure = [schedulerEnabled |-> s.schedulerEnabled],
              !.schedulerEnabledRef = s.schedulerEnabled,
              !.currentMessageIndexRef = s.currentMessageIndex,
              !.cooldownClickedAt = IF s.schedulerEnabled THEN @ ELSE 0]

\* client.on('debug_event', ...) of the application: audio and the scheduler.
onDebugEvent(event) ==
    /\ app' = [app EXCEPT !.events = Append(@, event),
                          !.scheduler = onSchedulerEvent(@, event, handsToPlayer(event))]
    /\ IF handsToPlayer(event)
       THEN playAudioChunk(chunkPayload(event.chunk), event.id, event.response_id)
       ELSE PlayerUntouched

\* A conversation_message event arrives on the connection.
ConversationMessage(msg) ==
    /\ BetweenTasks
    /\ wsClient.socket = "connected"
    /\ wsClient' = onConversationMessage(wsClient, msg)
    /\ IF msg.hasData THEN onDebugEvent(eventOf(wsClient, msg))
       ELSE UNCHANGED app /\ PlayerUntouched
    /\ UNCHANGED << micManager, decoder >>

ConnectionsBelow(n) == wsClient.connection < n
EventsBelow(n) == wsClient.received < n

\* The client: connect and disconnect calls, the socket's events and the
\* two timers, with the application's handlers attached.
NextClient ==
    \/ ClientConnect /\ Unobserved
    \/ ClientDisconnect /\ Unobserved
    \/ ConnectionsBelow(MaxConnections) /\ SocketConnect /\ Unobserved
    \/ \E fate \in {"closed", "reconnecting"} : SocketDisconnect(fate) /\ Unobserved
    \/ /\ EventsBelow(MaxEvents)
       /\ \E wellFormed \in BOOLEAN : ConversationReady(wellFormed)
       /\ Unobserved
    \/ \E i \in 1..(2 * MaxEvents) : TimerFires(i) /\ Unobserved

SpecClient == Init /\ [][NextClient]_vars

\* Inbound events: the messages of one connection, through the client and
\* the application's handler to the player.
NextEvents ==
    \/ AppInitialize
    \/ ClientConnect /\ Unobserved
    \/ ConnectionsBelow(1) /\ SocketConnect /\ Unobserved
    \/ /\ EventsBelow(MaxEvents)
       /\ CallsBelow(MaxCalls)
       /\ \E msg \in UpstreamMessages : ConversationMessage(msg)
       /\ Unobserved
    \/ \E o \in {"fulfilled", "rejected"} : ResumeSettled(o) /\ Unobserved /\ Alone
    \/ PlayAudioChunkResumed /\ Unobserved /\ Alone

SpecEvents == Init /\ [][NextEvents]_vars

\* ------------------------------------------------- capture and playback
\* The application's handlers of the Connect and the microphone button, as
\* far as the connection, the microphone and the player go.

\* What the handlers made by a render hold: the state of that render.
rendered(a) ==
    [a EXCEPT !.closure = [isConnected |-> a.isConnected, isMicActive |-> a.isMicActive],
              !.scheduler = renderedScheduler(@)]

\* React renders after state was set outside one of its event handlers (in
\* a socket handler, or after an await); the handlers are made anew.
ReactRender ==
    /\ BetweenTasks
    /\ app # rendered(app)
    /\ app' = rendered(app)
    /\ UNCHANGED << wsClient, micManager, decoder >>
    /\ PlayerUntouched

\* handleConnect(): a new client with the application's handlers, connect(),
\* wsClientRef.current = client.  The client that was in wsClientRef is not
\* disconnected; its socket, when open, goes on delivering its events.
handleConnect ==
    /\ wsClient' = connect(NewClient)
    /\ app' = rendered([app EXCEPT
                 !.wsClientRef = TRUE,
                 !.clients = @ + 1,
                 !.orphans = IF wsClient.socket \in {"connecting", "connected", "reconnecting"}
                             THEN Append(@, wsClient) ELSE @])
    /\ UNCHANGED micManager
    /\ PlayerUntouched

\* handleDisconnect(): client.disconnect() (which runs the handler of
\* 'disconnected' when the socket was connected), wsClientRef.current = null,
\* setIsConnected(false), setIsMicActive(false), micManager.stop(),
\* setMicrophoneActive(false).  The second setMicrophoneActive(false) of the
\* connected case returns on its first line.
handleDisconnect ==
    /\ wsClient' = IF app.wsClientRef THEN disconnect(wsClient) ELSE wsClient
    /\ app' = rendered([app EXCEPT !.wsClientRef = FALSE, !.isConnected = FALSE,
                                   !.isMicActive = FALSE,
                                   !.scheduler = onUserDisconnect(@)])
    /\ micManager' = stop(micManager)
    /\ setMicrophoneActive(FALSE)

\* The Connect/Disconnect button: onClick={isConnected ? onDisconnect : onConnect}.
ClickConnectButton ==
    /\ BetweenTasks
    /\ IF app.closure.isConnected THEN handleDisconnect ELSE handleConnect
    /\ UNCHANGED decoder

\* handleToggleMic(), up to its await; the microphone button is disabled
\* while the rendered isConnected is false.  The stop branch is whole; the
\* start branch calls micManager.start(), which runs up to
\* `await getUserMedia(...)`.
handleToggleMic ==
    /\ BetweenTasks
    /\ app.closure.isConnected /\ app.wsClientRef
    /\ IF app.closure.isMicActive
       THEN /\ micManager' = stop(micManager)
            /\ setMicrophoneActive(FALSE)
            /\ app' = rendered([app EXCEPT !.isMicActive = FALSE])
       ELSE /\ micManager' = [micManager EXCEPT !.awaiting = @ + 1]
            /\ UNCHANGED app
            /\ PlayerUntouched
    /\ UNCHANGED << wsClient, decoder >>

\* The promise of getUserMedia settles.  Fulfilled: start() runs to its end
\* (isRecording = true) and the continuation of handleToggleMic is ready to
\* run.  Rejected (also: a later statement of start() throws): start()
\* rethrows and handleToggleMic logs the error.
GetUserMediaSettled(outcome) ==
    /\ BetweenTasks
    /\ micManager.awaiting > 0
    /\ micManager' = IF outcome = "fulfilled"
                     THEN [micManager EXCEPT !.awaiting = @ - 1, !.isRecording = TRUE,
                                             !.resumed = @ + 1]
                     ELSE [micManager EXCEPT !.awaiting = @ - 1]
    /\ UNCHANGED << wsClient, app, decoder >>
    /\ PlayerUntouched

\* handleToggleMic() after its await: setMicrophoneActive(true),
\* setIsMicActive(true).
ToggleMicResumed ==
    /\ Idle
    /\ micManager.resumed > 0
    /\ micManager' = [micManager EXCEPT !.resumed = @ - 1]
    /\ setMicrophoneActive(TRUE)
    /\ app' = [app EXCEPT !.isMicActive = TRUE]
    /\ UNCHANGED << wsClient, decoder >>

\* The connect event of the socket of a replaced client: its handler of
\* 'connected' is the application's.
OrphanSocketConnect(i) ==
    /\ BetweenTasks
    /\ i \in 1..Len(app.orphans)
    /\ app.orphans[i].socket \in {"connecting", "reconnecting"}
    /\ app' = [app EXCEPT !.orphans[i] = onSocketConnect(@), !.isConnected = TRUE]
    /\ UNCHANGED << wsClient, micManager, decoder >>
    /\ PlayerUntouched

\* The disconnect event of the socket of a replaced client: its handler of
\* 'disconnected' is the application's.
OrphanSocketDisconnect(i, fate) ==
    /\ BetweenTasks
    /\ i \in 1..Len(app.orphans)
    /\ app.orphans[i].socket = "connected"
    /\ app' = [app EXCEPT !.orphans[i] = onSocketDisconnect(@, fate),
                          !.isConnected = FALSE, !.isMicActive = FALSE]
    /\ micManager' = stop(micManager)
    /\ setMicrophoneActive(FALSE)
    /\ UNCHANGED << wsClient, decoder >>

RECURSIVE connectionsOf(_)
connectionsOf(clients) ==
    IF clients = << >> THEN 0
    ELSE Head(clients).connection + connectionsOf(Tail(clients))

\* Socket connect events so far, of the client in use and the replaced ones.
SocketConnectsBelow(n) == wsClient.connection + connectionsOf(app.orphans) < n
ClientsBelow(n) == app.clients < n
StartsBelow(n) == micManager.awaiting + micManager.resumed < n

\* Microphone toggles, the Connect button, the sockets' connect and
\* disconnect events and the media stream's arrival, in any order.
NextCapture ==
    \/ /\ ~initCalled
       /\ \E st \in {"suspended", "running"} : initialize("none", st)
       /\ Unobserved /\ Alone
    \/ /\ app.closure.isConnected \/ ClientsBelow(MaxConnections)
       /\ ClickConnectButton
       /\ Unobserved
    \/ SocketConnectsBelow(MaxConnections) /\ SocketConnect /\ Unobserved
    \/ \E fate \in {"closed", "reconnecting"} : SocketDisconnect(fate) /\ Unobserved
    \/ /\ SocketConnectsBelow(MaxConnections)
       /\ \E i \in 1..MaxConnections : OrphanSocketConnect(i)
       /\ Unobserved
    \/ \E i \in 1..MaxConnections, fate \in {"closed", "reconnecting"} :
          OrphanSocketDisconnect(i, fate) /\ Unobserved
    \/ /\ ControlsBelow(MaxToggles)
       /\ StartsBelow(MaxStarts)
       /\ handleToggleMic
       /\ Unobserved
    \/ \E o \in {"fulfilled", "rejected"} : GetUserMediaSettled(o) /\ Unobserved
    \/ ToggleMicResumed /\ Unobserved
    \/ ReactRender /\ Unobserved

SpecCapture == Init /\ [][NextCapture]_vars

\* ------------------------------------------------- scheduled messages
\* The message scheduler with the connection and the player: the buttons of
\* the MessageScheduler, the agent's messages and audio, and the timers.

Scheduler == app.scheduler

\* Only the scheduler's record changes.
SchedulerStep(next) ==
    /\ app' = [app EXCEPT !.scheduler = next]
    /\ UNCHANGED << wsClient, micManager, decoder >>
    /\ PlayerUntouched

\* wsClientRef.current && wsClientRef.current.getConnectionStatus()
clientConnected == app.wsClientRef /\ wsClient.isConnected

\* The "Start Auto-Send"/"Stop Auto-Send" button, disabled while the rendered
\* isConnected is false.  React renders when the handler has returned.
ClickToggleEnabled ==
    /\ BetweenTasks
    /\ app.closure.isConnected
    /\ app' = rendered([app EXCEPT !.scheduler = onToggleEnabled(@, app.closure.isConnected)])
    /\ UNCHANGED << wsClient, micManager, decoder >>
    /\ PlayerUntouched

\* The "Send Next Message Now" button: shown while the rendered isEnabled and
\* isConnected hold, disabled for a second (ten intervals of 100 ms) after a
\* click.
ClickManualTrigger ==
    /\ BetweenTasks
    /\ app.closure.isConnected
    /\ Scheduler.closure.schedulerEnabled
    /\ Scheduler.now - Scheduler.cooldownClickedAt >= ManualCooldownMs
    /\ app' = rendered([app EXCEPT !.scheduler =
                 [handleManualSchedulerTrigger(Scheduler, app.closure.isConnected,
                                               Scheduler.closure.schedulerEnabled,
                                               app.wsClientRef, clientConnected)
                     EXCEPT !.cooldownClickedAt = Scheduler.now, !.clicks = @ + 1]])
    /\ UNCHANGED << wsClient, micManager, decoder >>
    /\ PlayerUntouched

due(timer) == timer.deadline >= 0 /\ timer.deadline <= Scheduler.now

\* The send timer set by handleScheduledMessageSend runs out.
SendTimerFires ==
    /\ BetweenTasks
    /\ due(Scheduler.schedulerCooldownRef)
    /\ SchedulerStep(onSendTimer(Scheduler, clientConnected))

\* The audio silence timer runs out.
SilenceTimerFires ==
    /\ BetweenTasks
    /\ due(Scheduler.audioSilenceTimerRef)
    /\ SchedulerStep(onSilenceTimer(Scheduler))

\* The timer of onToggleEnabled runs out: handleManualSchedulerTrigger of the
\* render in which the button was clicked.
AutoStartFires ==
    /\ BetweenTasks
    /\ \E timer \in Scheduler.autoStart :
          /\ due(timer)
          /\ SchedulerStep(
                [handleManualSchedulerTrigger(Scheduler, timer.isConnected,
                                              timer.schedulerEnabled,
                                              app.wsClientRef, clientConnected)
                    EXCEPT !.autoStart = @ \ {timer}])

\* Time passes while nothing is waiting to run: no continuation, no render,
\* no timer that has run out.
Elapse ==
    /\ BetweenTasks
    /\ app = rendered(app)
    /\ ~due(Scheduler.schedulerCooldownRef)
    /\ ~due(Scheduler.audioSilenceTimerRef)
    /\ \A timer \in Scheduler.autoStart : ~due(timer)
    /\ SchedulerStep([Scheduler EXCEPT !.now = @ + TickMs])

TicksBelow(n) == Scheduler.now < Epoch + n * TickMs
ClicksBelow(n) == Scheduler.clicks < n

\* The page is loaded with either runtime selected.
InitScheduler ==
    /\ PlayerInit
    /\ wsClient = NewClient
    /\ micManager = NewMicrophoneManager
    /\ decoder = NoPayload
    /\ app \in { [NewApp EXCEPT !.scheduler.runtime = r] : r \in Runtimes }

NextScheduler ==
    \/ /\ ClientsBelow(1)
       /\ ~app.closure.isConnected
       /\ ClickConnectButton
       /\ Unobserved
    \/ SocketConnectsBelow(1) /\ SocketConnect /\ Unobserved
    \/ ReactRender /\ Unobserved
    \/ ClicksBelow(MaxClicks) /\ ClickToggleEnabled /\ Unobserved
    \/ ClicksBelow(MaxClicks) /\ ClickManualTrigger /\ Unobserved
    \/ /\ EventsBelow(MaxEvents)
       /\ CallsBelow(MaxCalls)
       /\ \E msg \in SchedulerMessages : ConversationMessage(msg)
       /\ Unobserved
    \/ SendTimerFires /\ Unobserved
    \/ SilenceTimerFires /\ Unobserved
    \/ AutoStartFires /\ Unobserved
    \/ TicksBelow(MaxTicks) /\ Elapse /\ Unobserved

SpecScheduler == InitScheduler /\ [][NextScheduler]_vars

\* The event loop runs what is ready: a timer that has run out fires, a
\* render that is due is made, and time goes on.
FairScheduler ==
    /\ SpecScheduler
    /\ WF_vars(SendTimerFires /\ Unobserved)
    /\ WF_vars(SilenceTimerFires /\ Unobserved)
    /\ WF_vars(AutoStartFires /\ Unobserved)
    /\ WF_vars(ReactRender /\ Unobserved)
    /\ WF_vars(TicksBelow(MaxTicks) /\ Elapse /\ Unobserved)

\* ==================================================================== claims

Started == { k \in 1..Len(calls) : calls[k].started }
Chunk(i) == calls[scheduled[i]]
\* No stopAllAudio ran between the scheduling of the i-th and the j-th chunk.
SameRun(i, j) == Chunk(i).schedEpoch = Chunk(j).schedEpoch
FirstOfRun(i) == i = 1 \/ ~SameRun(i - 1, i)

\* C1: among chunks scheduled with no stopAllAudio/interrupt in between, each
\* chunk starts no earlier than the start of the one scheduled before it plus
\* that one's duration plus the 10 ms gap, so their playback intervals are
\* disjoint; the first chunk of such a run starts no earlier than the audio
\* clock at its enqueue plus 50 ms.
C1_GaplessSchedule ==
    /\ \A i \in 2..Len(scheduled) :
          SameRun(i - 1, i) =>
             Chunk(i).start >= Chunk(i - 1).start + Chunk(i - 1).duration + GapMs
    /\ \A i, j \in 1..Len(scheduled) :
          (i < j /\ SameRun(i, j)) => Chunk(i).start + Chunk(i).duration <= Chunk(j).start
    /\ \A i \in 1..Len(scheduled) :
          FirstOfRun(i) => Chunk(i).start >= Chunk(i).now + LookaheadMs

\* Two chunks of one run, the second queued right behind a 60 ms first one.
C1_Witness ==
    /\ Len(scheduled) = 2
    /\ SameRun(1, 2)
    /\ Chunk(1).duration = 60
    /\ Chunk(2).start = Chunk(1).start + 60 + GapMs
    /\ Chunk(2).start > Chunk(2).now + LookaheadMs

\* C2: every scheduled chunk, first or not, before or after any stop, starts at
\* least 50 ms after the audio clock read when it was scheduled.
C2_MinimumLookahead ==
    \A k \in Started : calls[k].start >= calls[k].now + LookaheadMs

\* A chunk scheduled after a stop, with the clock advanced, exactly 50 ms ahead.
C2_Witness ==
    \E k \in Started :
        /\ calls[k].schedEpoch >= 1
        /\ calls[k].now > 0
        /\ calls[k].start = calls[k].now + LookaheadMs

\* C3: no step other than stopAllAudio (interrupt included) lowers the cursor
\* nextPlaybackTime.
C3_CursorMonotonic ==
    [][stopCount' = stopCount => nextPlaybackTime' >= nextPlaybackTime]_vars

\* The cursor is ahead of the clock after an accepted and a failed chunk and a
\* control operation.
C3_Witness ==
    /\ nextPlaybackTime > currentTime + LookaheadMs
    /\ controlOps >= 1
    /\ \E j, k \in 1..Len(calls) :
          j < k /\ calls[j].started /\ calls[k].result = "false"
                /\ calls[k].gate = "passed"

\* C4: of two calls with the same frame id, with no stopAllAudio between them,
\* the later one is rejected (returns false, schedules nothing) once the
\* earlier one has passed the duplicate test; so the frame is scheduled at
\* most once, and frameCount and the active set count it once.
C4_DedupIdempotent ==
    \A j, k \in 1..Len(calls) :
        ( /\ j < k
          /\ calls[j].frameId # NoFrameId
          /\ calls[j].frameId = calls[k].frameId
          /\ calls[j].gate = "passed"
          /\ calls[j].invokedEpoch = calls[k].invokedEpoch )
        => /\ calls[k].result = "false"
           /\ ~calls[k].started
           /\ k \notin activeAudioSources
           /\ frameCount <= Len(calls) - 1

\* The same frame id sent twice to an enabled, unmuted player: the first is
\* playing, the second came back false, one handle, one frame counted.
C4_Witness ==
    /\ Len(calls) = 2
    /\ calls[1].frameId = 1 /\ calls[2].frameId = 1
    /\ calls[1].result = "true"
    /\ calls[2].gate = "duplicate" /\ calls[2].result = "false"
    /\ activeAudioSources = {1}
    /\ frameCount = 1

\* C5: the dedup window never holds more than 1000 ids; a call that finds its
\* id in the window leaves the window as it is; recording a new id when the
\* window holds 1000 removes exactly the 100 earliest-inserted ids (901 stay,
\* in insertion order); an id absent from the window, evicted ones included,
\* is reported as new and recorded as the newest.
C5_BoundedFifoWindow ==
    /\ [](Len(processedIds) <= MaxProcessedIds)
    /\ [][ LET f == dedup'.frameId
               known == f \in Range(processedIds)
               all == Append(processedIds, f)
           IN /\ dedup'.dup = known
              /\ known => processedIds' = processedIds
              /\ (~known /\ Len(processedIds) < MaxProcessedIds) => processedIds' = all
              /\ (~known /\ Len(processedIds) = MaxProcessedIds) =>
                    /\ processedIds' = SubSeq(all, TrimCount + 1, MaxProcessedIds + 1)
                    /\ Len(processedIds') = MaxProcessedIds + 1 - TrimCount
       ]_vars

\* Frame id 1, evicted by the first trim, was sent again and taken as new.
C5_Witness ==
    /\ dedup.fresh > MaxProcessedIds
    /\ dedup.frameId = 1
    /\ ~dedup.dup
    /\ dedup.reinserts = 1
    /\ processedIds[1] = TrimCount + 1
    /\ processedIds[Len(processedIds)] = 1

\* C6: the step of stopAllAudio leaves the active set empty, and the first
\* chunk scheduled after a stopAllAudio starts exactly 50 ms after the audio
\* clock read at its scheduling.
C6_StopClearsState ==
    [][ /\ stopCount' > stopCount => Cardinality(activeAudioSources') = 0
        /\ ( /\ Len(scheduled') = Len(scheduled) + 1
             /\ stopCount >= 1
             /\ (scheduled # << >> =>
                    calls[scheduled[Len(scheduled)]].schedEpoch < stopCount) )
           => calls'[scheduled'[Len(scheduled')]].start = currentTime + LookaheadMs
      ]_vars

\* A chunk scheduled after a stop at clock + 50 ms, although the cursor left by
\* the chunk queued before the stop was later than that.
C6_Witness ==
    /\ Len(scheduled) = 2
    /\ Chunk(1).schedEpoch = 0 /\ Chunk(2).schedEpoch = 1
    /\ Chunk(2).start = Chunk(2).now + LookaheadMs
    /\ Chunk(1).start + Chunk(1).duration + GapMs > Chunk(2).start
    /\ activeAudioSources = {scheduled[2]}

C8_StartsFollowArrival ==
    \A j, k \in Started : j < k => calls[j].start <= calls[k].start

\* C8 (amended): chunks are scheduled in the order their calls were invoked,
\* and of two accepted chunks with no stopAllAudio between their schedulings
\* the one invoked first starts no later than the other.
C8_StartsFollowArrivalWithinRun ==
    /\ \A i, j \in 1..Len(scheduled) : i < j => scheduled[i] < scheduled[j]
    /\ \A j, k \in Started :
          (j < k /\ calls[j].schedEpoch = calls[k].schedEpoch)
             => calls[j].start <= calls[k].start

\* Two calls suspended on resume(), then continued: both scheduled, in order.
C8_Witness ==
    /\ Len(scheduled) >= 2
    /\ \A i \in 1..2 : Chunk(i).invokedEpoch = Chunk(i).schedEpoch
    /\ Chunk(1).now = 0 /\ Chunk(2).now = 0
    /\ audioContext = "running"
    /\ \E k \in 1..Len(calls) : calls[k].result = "pending"

\* C9: a call made while the player is disabled or muted, or with a frame id
\* that is in the dedup window, returns false at once and leaves the cursor,
\* the active set, frameCount, the dedup window, the response id and the
\* suspended calls untouched.
C9_RejectedCallChangesNothing ==
    [][ ( /\ Len(calls') = Len(calls) + 1
          /\ \/ ~isEnabled
             \/ audioContext = "null"
             \/ isMuted
             \/ calls'[Len(calls')].frameId \in Range(processedIds) )
        => /\ calls'[Len(calls')].result = "false"
           /\ ~calls'[Len(calls')].started
           /\ UNCHANGED << nextPlaybackTime, activeAudioSources, frameCount,
                           processedIds, currentResponseId, pendingResume, scheduled >>
      ]_vars

\* A call rejected because the player was muted, after an accepted one.
C9_Witness ==
    /\ Len(calls) = 2
    /\ calls[1].started
    /\ isMuted /\ isEnabled
    /\ calls[2].gate = "notReady" /\ calls[2].result = "false"
    /\ calls[2].frameId # calls[1].frameId
    /\ frameCount = 1

\* C10: the promise of playAudioChunk never rejects, and a call whose payload
\* cannot be decoded or whose resume() failed resolves to false.
C10_NeverRejects ==
    \A k \in 1..Len(calls) :
        /\ calls[k].result # "rejected"
        /\ (calls[k].result = "true") = calls[k].started
        /\ (~calls[k].payload.valid /\ calls[k].result # "pending")
              => calls[k].result = "false"

\* One call failed on a rejected resume(), another on malformed base64.
C10_Witness ==
    \E j, k \in 1..Len(calls) :
        /\ calls[j].gate = "passed" /\ calls[j].payload.valid
        /\ calls[j].result = "false"
        /\ calls[k].gate = "passed" /\ ~calls[k].payload.valid
        /\ calls[k].result = "false"

\* C11: a call that passed the enabled/muted/duplicate test and then fails
\* (resume() rejected, or the payload does not decode: malformed base64, no
\* sample, a partial sample) returns false and leaves the cursor, the active
\* set, frameCount and the list of scheduled chunks as they were.
C11_FailedCallLeavesScheduler ==
    [][ \A k \in 1..Len(calls') :
           ( /\ calls'[k].gate = "passed"
             /\ calls'[k].result = "false"
             /\ (k > Len(calls) \/ calls[k].result = "pending") )
           => UNCHANGED << nextPlaybackTime, activeAudioSources, frameCount, scheduled >>
      ]_vars

\* A chunk is in flight with the cursor behind it; the next call was let in
\* and failed, and the cursor, the active set and the count are those the
\* first chunk left.
C11_Witness ==
    /\ Len(calls) = 2
    /\ calls[1].started /\ calls[1].duration = 60
    /\ calls[2].gate = "passed" /\ calls[2].result = "false"
    /\ activeAudioSources = {1}
    /\ frameCount = 1
    /\ nextPlaybackTime = calls[1].start + 60 + GapMs

\* The latest call kept by the caller was setMicrophoneActive(arg).
MicCall(c, arg) == c.op = "setMicrophoneActive" /\ c.arg = arg

\* C12 (as claimed): on an initialized player whose microphone was not active,
\* after setMicrophoneActive(true) the output level is 0.3 times the level
\* held before the call, and a setMicrophoneActive(false) that comes next puts
\* the output level back to exactly that level.
C12_DuckRoundTrip ==
    /\ []( (MicCall(lastCall, "true") /\ ~lastCall.active /\ isEnabled)
              => gainLevel = duck(lastCall.level) )
    /\ [][ ( /\ MicCall(lastCall, "true") /\ ~lastCall.active /\ isEnabled
             /\ MicCall(lastCall', "false") )
           => gainLevel' = lastCall.level ]_vars

\* C13: a setMicrophoneActive(v) call made while the flag already equals v
\* changes neither the flag, nor gain.value, nor the output level, nor the
\* saved level; as long as the microphone stays active no step writes the
\* saved level; and the step that deactivates it sets the output level to the
\* saved level.
C13_DuckReentrancyGuard ==
    [][ /\ ( /\ controlOps' # controlOps
             /\ lastCall'.op = "setMicrophoneActive"
             /\ lastCall'.arg = Bool(microphoneActive) )
           => UNCHANGED << microphoneActive, gain, gainLevel, originalVolume >>
        /\ (microphoneActive /\ microphoneActive') => originalVolume' = originalVolume
        /\ (microphoneActive /\ ~microphoneActive' /\ gainNode)
              => gainLevel' = originalVolume
      ]_vars

\* setMicrophoneActive(true) was called again after the audio thread had
\* applied the ducked level: gain.value is the ducked 0.15, the saved level
\* is still 0.5.
C13_Witness ==
    /\ MicCall(lastCall, "true") /\ lastCall.active
    /\ microphoneActive /\ isEnabled
    /\ lastCall.level = duck(DefaultGain)
    /\ gain = duck(DefaultGain) /\ gainLevel = duck(DefaultGain)
    /\ originalVolume = DefaultGain

\* C14 (as claimed): whenever the player is muted and has a gain node, the
\* output level is 0.
C14_MuteForcesSilence == (isMuted /\ gainNode) => gainLevel = 0

\* C15: only toggleMute changes isMuted; each toggleMute call flips it and
\* returns the flag as it is after the flip, so a second call in a row brings
\* back the flag held before the first; and the call that unmutes sets
\* gain.value and the output level to 0.5, whatever they were before.
C15_ToggleMute ==
    [][ /\ (lastCall' # lastCall /\ lastCall'.op = "toggleMute")
              => /\ isMuted' = ~isMuted
                 /\ lastCall'.result = Bool(~isMuted)
        /\ isMuted' # isMuted
              => /\ lastCall'.op = "toggleMute"
                 /\ lastCall.op = "toggleMute" => Bool(isMuted') # lastCall.result
                 /\ (gainNode /\ ~isMuted')
                        => gain' = UnmuteGain /\ gainLevel' = UnmuteGain
                 /\ (gainNode /\ isMuted') => gain' = 0 /\ gainLevel' = 0
      ]_vars

\* Muted and unmuted again while ducked from 0.3: before the mute the output
\* level was 0.09 and the saved level 0.3; the unmute returned false and left
\* the output level at 0.5.
C15_Witness ==
    /\ lastCall.op = "toggleMute" /\ lastCall.result = "false" /\ lastCall.level = 0
    /\ ~isMuted /\ isEnabled
    /\ microphoneActive /\ originalVolume = 300
    /\ gain = UnmuteGain /\ gainLevel = UnmuteGain

\* percent / 100 brought into [0, 1], in thousandths.
ClampedLevel(percent) ==
    IF percent < 0 THEN 0 ELSE IF percent > 100 THEN 1000 ELSE 10 * percent

\* C16: a setVolume(percent) call made while muted changes neither gain.value
\* nor the output level; made while not muted, on a player with a gain node,
\* it sets both at once to percent/100 brought into [0, 1]; and in every
\* state gain.value, the output level and the saved level lie in [0, 1].
C16_VolumeClamped ==
    /\ []( /\ gain \in 0..1000
           /\ gainLevel \in 0..1000
           /\ originalVolume \in 0..1000 )
    /\ [][ (controlOps' # controlOps /\ lastCall'.op = "setVolume")
           => /\ isMuted => UNCHANGED << gain, gainLevel >>
              /\ (~isMuted /\ gainNode)
                    => /\ gain' = ClampedLevel(lastCall'.percent)
                       /\ gainLevel' = ClampedLevel(lastCall'.percent)
              /\ UNCHANGED << isMuted, microphoneActive, originalVolume >>
         ]_vars

\* setVolume(150) on an unmuted player whose level was lower: the level is 1.
C16_Witness ==
    /\ lastCall.op = "setVolume" /\ lastCall.percent = 150
    /\ lastCall.level < 1000
    /\ ~isMuted /\ gainNode
    /\ gain = 1000 /\ gainLevel = 1000

\* What stopAllAudio() makes of the player.
StopEffect ==
    /\ activeAudioSources' = {}
    /\ nextPlaybackTime' = (IF audioContext # "null" THEN currentTime ELSE nextPlaybackTime)
    /\ processedIds' = << >>
    /\ UNCHANGED << audioContext, gainNode, gain, gainLevel, isEnabled, isMuted, frameCount,
                    microphoneActive, originalVolume, currentResponseId, currentTime,
                    pendingResume, microtasks, calls, scheduled >>

\* C17: every interrupt call, whatever its argument, is one stopAllAudio and
\* returns true; and every step that runs stopAllAudio, called directly or
\* through interrupt, empties the active set, puts the cursor at the audio
\* clock, empties the dedup window and leaves every other field, the tracked
\* response id included, as it was.
C17_InterruptIsStopAll ==
    [][ /\ lastCall'.op = "interrupt"
              => /\ stopCount' = stopCount + 1
                 /\ lastCall'.result = "true"
        /\ stopCount' # stopCount => StopEffect
      ]_vars

\* interrupt() without argument while a chunk of response r1 played, with the
\* clock advanced: one source stopped, the cursor at the clock, r1 still
\* tracked.
C17_Witness ==
    /\ lastCall.op = "interrupt" /\ lastCall.arg = NoResponseId
    /\ lastCall.result = "true"
    /\ stoppedSources # {}
    /\ activeAudioSources = {} /\ processedIds = << >>
    /\ currentTime > 0 /\ nextPlaybackTime = currentTime
    /\ currentResponseId = "r1"
    /\ frameCount >= 1

\* C18: an initialize() call in which a construction step throws returns
\* false and leaves isEnabled false (one in which none throws returns true
\* and sets it); once initialize() has failed isEnabled stays false; and every
\* playAudioChunk call made then returns false at once and changes no field
\* of the player and nothing in the browser.
C18_FailedInitializeDisables ==
    [][ /\ initCalled' # initCalled
              => /\ lastCall'.op = "initialize"
                 /\ lastCall'.arg \in InitSteps
                 /\ lastCall'.result = (IF lastCall'.arg = "none" THEN "true" ELSE "false")
                 /\ isEnabled' = (lastCall'.arg = "none")
        /\ (initCalled /\ ~isEnabled)
              => /\ ~isEnabled'
                 /\ Len(calls') = Len(calls) + 1
                       => /\ calls'[Len(calls')].result = "false"
                          /\ ~calls'[Len(calls')].started
                          /\ UNCHANGED << playerVars, currentTime, pendingResume,
                                          microtasks, endedFired, scheduled,
                                          stoppedSources >>
      ]_vars

\* initialize() failed at createAnalyser, with the context and the gain node
\* already built; two chunks were offered to the unmuted player and refused.
C18_Witness ==
    /\ initCalled /\ ~isEnabled /\ ~isMuted
    /\ audioContext # "null" /\ gainNode
    /\ Len(calls) = 2
    /\ \A k \in 1..2 : calls[k].result = "false" /\ calls[k].gate = "notReady"
    /\ calls[1].payload.valid
    /\ frameCount = 0 /\ activeAudioSources = {} /\ processedIds = << >>

\* C19: a getStats() call changes no field of the player and nothing in the
\* browser, and what it returns is frameCount, the size of the active set,
\* currentResponseId, isEnabled and isMuted as they are when it is called.
C19_GetStatsSnapshot ==
    [][ lastStats' # NoStats
        => /\ UNCHANGED << playerVars, currentTime, pendingResume, microtasks,
                           endedFired, calls, scheduled, stopCount, stoppedSources,
                           initCalled, controlOps >>
           /\ lastStats'.frameCount = frameCount
           /\ lastStats'.activeSourcesCount = Cardinality(activeAudioSources)
           /\ lastStats'.currentResponseId = currentResponseId
           /\ lastStats'.isEnabled = isEnabled
           /\ lastStats'.isMuted = isMuted
      ]_vars

\* getStats() on a muted player after its one chunk has ended: one frame
\* counted, no active source.
C19_Witness ==
    /\ lastStats.frameCount = 1
    /\ lastStats.activeSourcesCount = 0
    /\ lastStats.currentResponseId = "r1"
    /\ lastStats.isEnabled /\ lastStats.isMuted
    /\ endedFired = {1} /\ stoppedSources = {}

\* The state of the playback handle made by call k: Scheduled from src.start()
\* until the audio clock reaches its start time, Playing from then until its
\* ended event is dispatched, Ended after that; Stopped once stopAllAudio has
\* called stop() on it.
HandleState(k, cs, stopped, ended, clock) ==
    IF k > Len(cs) THEN "None"
    ELSE IF ~cs[k].started THEN "None"
    ELSE IF k \in stopped THEN "Stopped"
    ELSE IF k \in ended THEN "Ended"
    ELSE IF clock >= cs[k].start THEN "Playing"
    ELSE "Scheduled"

HandleSteps ==
    { << "None", "None" >>, << "None", "Scheduled" >>,
      << "Scheduled", "Scheduled" >>, << "Scheduled", "Playing" >>,
      << "Scheduled", "Stopped" >>,
      << "Playing", "Playing" >>, << "Playing", "Ended" >>, << "Playing", "Stopped" >>,
      << "Ended", "Ended" >>, << "Stopped", "Stopped" >> }

\* C20: every step takes every handle along Scheduled -> Playing -> Ended or
\* from Scheduled or Playing to Stopped, and out of Ended or Stopped nowhere;
\* exactly the handles that are Scheduled or Playing are in the active set;
\* and the ended callback of a handle already stopped changes no field of
\* the player.
C20_HandleStateMachine ==
    /\ [](activeAudioSources =
             { k \in 1..Len(calls) :
                  HandleState(k, calls, stoppedSources, endedFired, currentTime)
                     \in {"Scheduled", "Playing"} })
    /\ [][ /\ \A k \in 1..Len(calls') :
                 << HandleState(k, calls, stoppedSources, endedFired, currentTime),
                    HandleState(k, calls', stoppedSources', endedFired', currentTime') >>
                    \in HandleSteps
           /\ \A k \in stoppedSources :
                 (k \in endedFired' /\ k \notin endedFired) => UNCHANGED playerVars
         ]_vars

\* One handle played to its end; after that a second one was scheduled and
\* stopAllAudio stopped it; then the ended callback of the stopped one ran.
C20_Witness ==
    \E j, k \in 1..Len(calls) :
        /\ HandleState(j, calls, stoppedSources, endedFired, currentTime) = "Ended"
        /\ calls[j].schedEpoch = 0
        /\ HandleState(k, calls, stoppedSources, endedFired, currentTime) = "Stopped"
        /\ k \in endedFired
        /\ stopCount = 1
        /\ activeAudioSources = {}

\* C21: a playAudioChunk call with no frame id is never rejected as a
\* duplicate, whatever calls came before it, and leaves the dedup window as
\* it was; on an enabled, unmuted player it passes the entry tests.
C21_AnonymousFramesPass ==
    [][ ( /\ Len(calls') = Len(calls) + 1
          /\ calls'[Len(calls')].frameId = NoFrameId )
        => /\ calls'[Len(calls')].gate # "duplicate"
           /\ processedIds' = processedIds
           /\ (isEnabled /\ audioContext # "null" /\ ~isMuted)
                 => calls'[Len(calls')].gate = "passed"
      ]_vars

\* Two anonymous frames in a row, both scheduled, the window still empty.
C21_Witness ==
    /\ Len(calls) = 2
    /\ \A k \in 1..2 : calls[k].frameId = NoFrameId /\ calls[k].started
    /\ processedIds = << >>
    /\ stopCount = 0

\* C22: the step of stopAllAudio (interrupt included) leaves the dedup window
\* empty, and a call is rejected as a duplicate only if an earlier call with
\* the same frame id passed the duplicate test with no stopAllAudio between
\* the two; so an id accepted before a stop is accepted when sent again
\* after it.
C22_StopClearsDedupWindow ==
    /\ [][ stopCount' # stopCount => processedIds' = << >> ]_vars
    /\ [](\A k \in 1..Len(calls) :
            calls[k].gate = "duplicate"
            => \E j \in 1..(k - 1) :
                  /\ calls[j].frameId = calls[k].frameId
                  /\ calls[j].gate = "passed"
                  /\ calls[j].invokedEpoch = calls[k].invokedEpoch)

\* Frame id 1 was scheduled, stopAllAudio ran, and frame id 1 sent again was
\* scheduled again.
C22_Witness ==
    /\ Len(calls) = 2
    /\ calls[1].frameId = 1 /\ calls[1].started /\ calls[1].invokedEpoch = 0
    /\ calls[2].frameId = 1 /\ calls[2].started /\ calls[2].invokedEpoch = 1
    /\ processedIds = << 1 >>

\* C23: currentResponseId is null until the first playAudioChunk call; every
\* step that changes it is a playAudioChunk call that names a response, and
\* changes it to that response id; a call that names no response or the
\* tracked one leaves it as it is; a call that passes the entry tests and
\* names a response leaves that response tracked; and no stopAllAudio,
\* interrupt, setVolume, toggleMute, setMicrophoneActive or getStats step
\* changes it.
C23_ResponseTracking ==
    /\ [](calls = << >> => currentResponseId = NoResponseId)
    /\ [][ /\ currentResponseId' # currentResponseId
                 => /\ Len(calls') = Len(calls) + 1
                    /\ lastCall'.op = "playAudioChunk"
                    /\ lastCall'.arg # NoResponseId
                    /\ currentResponseId' = lastCall'.arg
           /\ ( /\ Len(calls') = Len(calls) + 1
                /\ lastCall'.arg \in {NoResponseId, currentResponseId} )
                 => currentResponseId' = currentResponseId
           /\ ( /\ Len(calls') = Len(calls) + 1
                /\ calls'[Len(calls')].gate = "passed"
                /\ lastCall'.arg # NoResponseId )
                 => currentResponseId' = lastCall'.arg
         ]_vars

\* A frame of r1 was accepted, the player was stopped and a control used, and
\* r1 stayed tracked; then a frame of r2 was accepted and r2 is tracked.
C23_Witness ==
    /\ Len(calls) = 2
    /\ calls[1].gate = "passed" /\ calls[2].gate = "passed"
    /\ calls[2].invokedEpoch = 1
    /\ controlOps = 1
    /\ lastCall.op = "playAudioChunk" /\ lastCall.arg = "r2"
    /\ currentResponseId = "r2"

\* C24 (as claimed): every payload that atob accepts, of any byte length,
\* decodes to a buffer of floor(byteLength / bytesPerSample) samples, whose
\* duration is that count over the sample rate.
C24_DecoderSampleCount ==
    (decoder.state = "decoded" /\ decoder.valid)
    => LET sampleCount == Len(decoder.bytes) \div (BitDepth \div 8)
       IN /\ decoder.ok
          /\ decoder.length = sampleCount
          /\ Len(decoder.channelData) = sampleCount
          /\ decoder.duration = (sampleCount * 1000) \div SampleRate

\* The 16-bit integer that the bytes lo, hi spell, least significant first.
Pcm16(lo, hi) == lo + 256 * hi - (IF hi >= 128 THEN 65536 ELSE 0)

\* C25: in every buffer the decoder returns, the i-th sample is the i-th
\* pair of payload bytes read as a signed 16-bit little-endian integer and
\* divided by 32768; so it lies in [-1, 1), and the bytes of -32768, 16384, 0
\* and 32767 give -1, 0.5, 0 and 32767/32768.
C25_DecoderValueMapping ==
    (decoder.state = "decoded" /\ decoder.ok)
    => /\ Len(decoder.channelData) = Len(decoder.bytes) \div 2
       /\ \A i \in 1..Len(decoder.channelData) :
             LET lo == decoder.bytes[2 * i - 1]
                 hi == decoder.bytes[2 * i]
                 v == decoder.channelData[i]
             IN /\ v * 32768 = Pcm16(lo, hi) * SampleUnit
                /\ v >= -SampleUnit /\ v < SampleUnit
                /\ (lo = 0 /\ hi = 128) => v = -SampleUnit
                /\ (lo = 0 /\ hi = 64) => 2 * v = SampleUnit
                /\ (lo = 0 /\ hi = 0) => v = 0
                /\ (lo = 255 /\ hi = 127) => v * 32768 = 32767 * SampleUnit

\* The payload "/3////": the bytes ff 7f ff ff decoded to the two samples
\* 32767/32768 and -1/32768, in that order.
C25_Witness ==
    /\ decoder.state = "decoded" /\ decoder.ok
    /\ decoder.bytes = << 255, 127, 255, 255 >>
    /\ decoder.channelData = << 32767, -1 >>

\* C28 (as claimed): a User message is sent only after a conversation_ready
\* event was received on the connection it is sent on, the session-trigger
\* frame only after a User message, and both only on a connected socket.
C28_ConnectionFlow ==
    \A i \in 1..Len(wsClient.log) :
        LET m == wsClient.log[i]
        IN /\ m.kind \in {"User", "SessionTrigger"} => m.socket = "connected"
           /\ m.kind = "User"
                 => \E j \in 1..(i - 1) :
                       /\ wsClient.log[j].kind = "conversation_ready"
                       /\ wsClient.log[j].connection = m.connection
           /\ m.kind = "SessionTrigger"
                 => \E j \in 1..(i - 1) : wsClient.log[j].kind = "User"

\* C26: the player is called only by the handler of an inbound event whose
\* type is AudioFrame or AudioFrame2 and whose payload's chunk is a string,
\* with that event's id as the frame id; and an event whose type is another
\* or whose chunk is not a string leaves the calls made, the dedup window,
\* the cursor, the active set and frameCount as they were.
C26_OnlyAudioFramesReachPlayer ==
    [][ LET e == app.events'[Len(app.events')]
            received == Len(app.events') = Len(app.events) + 1
        IN /\ Len(calls') # Len(calls)
                 => /\ received
                    /\ e.type \in {"AudioFrame", "AudioFrame2"}
                    /\ e.chunk \in {"empty", "pcm"}
                    /\ Len(calls') = Len(calls) + 1
                    /\ calls'[Len(calls')].frameId = e.id
           /\ ( /\ received
                /\ \/ e.type \notin {"AudioFrame", "AudioFrame2"}
                   \/ e.chunk \notin {"empty", "pcm"} )
                 => UNCHANGED << calls, processedIds, nextPlaybackTime,
                                 activeAudioSources, frameCount >>
      ]_vars

\* An AudioFrame2 with a base64 chunk was played, and after it an AudioFrame
\* whose chunk is a number was received: one call, one id recorded, one
\* frame counted.
C26_Witness ==
    /\ Len(app.events) = 2
    /\ app.events[1].type = "AudioFrame2" /\ app.events[1].chunk = "pcm"
    /\ app.events[2].type = "AudioFrame" /\ app.events[2].chunk = "number"
    /\ Len(calls) = 1 /\ calls[1].started /\ calls[1].frameId = app.events[1].id
    /\ processedIds = << app.events[1].id >>
    /\ frameCount = 1 /\ activeAudioSources = {1}

\* C27: once every handler has completed (no start() is waiting for its
\* media stream and no continuation is waiting to run), the player's
\* microphone-active flag equals the MicrophoneManager's recording state.
C27_CaptureCoupling ==
    (micManager.awaiting = 0 /\ micManager.resumed = 0 /\ Idle)
        => microphoneActive = micManager.isRecording

\* The connection ended while start() was waiting for the media stream, the
\* handler of 'disconnected' ran, and then the stream arrived and
\* handleToggleMic ran to its end: recording, and the player ducked.
C27_Witness ==
    /\ ~app.isConnected
    /\ wsClient.socket \in {"closed", "reconnecting"}
    /\ micManager.isRecording /\ microphoneActive
    /\ micManager.awaiting = 0 /\ micManager.resumed = 0
    /\ app.isMicActive

\* C29 (as claimed): when a chunk is registered and started, nothing has
\* taken effect since its playAudioChunk call made its entry tests: the
\* player is not muted, no stopAllAudio has run since the call was made, and
\* no other playAudioChunk call has been made since.
C29_PlayIsAtomic ==
    [][ Len(scheduled') > Len(scheduled)
        => LET k == scheduled'[Len(scheduled')]
           IN /\ ~isMuted
              /\ calls'[k].invokedEpoch = stopCount
              /\ k = Len(calls')
      ]_vars

\* C30 (as claimed): of two inbound events that carry the same message, at
\* most one has its chunk scheduled for playback.
C30_DuplicateDeliveryPlayedOnce ==
    \A i, j \in 1..Len(app.events) :
        ( /\ i < j
          /\ app.events[i].upstream = app.events[j].upstream
          /\ app.events[i].type = app.events[j].type
          /\ app.events[i].chunk = app.events[j].chunk )
        => ~ \E k, l \in Started :
                /\ calls[k].frameId = app.events[i].id
                /\ calls[l].frameId = app.events[j].id

\* The handles that were started and have neither been stopped nor had their
\* ended event dispatched: those that are Scheduled or Playing.
LiveHandles == Range(scheduled) \ (stoppedSources \cup endedFired)

\* C31: the active set holds exactly the handles that are Scheduled or
\* Playing, and getStats() reports their number; a handle enters the set
\* only when it is started and never again after it has left; it leaves
\* either by its own ended callback or by the stop() of stopAllAudio, never
\* by both; and the ended callback of a handle that stopAllAudio stopped
\* earlier leaves the set as it is.
C31_ActiveSetExact ==
    /\ [](activeAudioSources = LiveHandles)
    /\ [](lastStats # NoStats => lastStats.activeSourcesCount = Cardinality(LiveHandles))
    /\ [][ /\ \A k \in activeAudioSources' \ activeAudioSources :
                 k \notin Range(scheduled) /\ k = scheduled'[Len(scheduled')]
           /\ \A k \in activeAudioSources \ activeAudioSources' :
                 (k \in endedFired' \ endedFired) # (k \in stoppedSources' \ stoppedSources)
           /\ \A k \in stoppedSources :
                 (k \in endedFired' \ endedFired) => activeAudioSources' = activeAudioSources
         ]_vars

\* A handle was stopped by stopAllAudio, another was started after the stop,
\* and then the ended callback of the stopped one ran: the later handle is
\* still in the set.
C31_Witness ==
    \E j, k \in 1..Len(calls) :
        /\ j \in stoppedSources /\ j \in endedFired
        /\ calls[k].started /\ calls[k].schedEpoch = 1 /\ calls[j].schedEpoch = 0
        /\ activeAudioSources = {k}

\* C32 (as claimed): on an initialized player whose microphone-active flag is
\* true, the output level is at most 0.3 times the level captured when the
\* ducking began, whatever setVolume and toggleMute calls came since.
C32_DuckingHolds ==
    (isEnabled /\ gainNode /\ microphoneActive)
        => gainLevel * 10 <= originalVolume * DuckTenths

\* C33 (as claimed): a playAudioChunk call that returns false, whether it was
\* refused at the entry tests or failed inside, leaves currentResponseId as
\* it was.  Stated for the calls that return within the step that makes them.
C33_TrackingFollowsAcceptance ==
    [][ ( /\ Len(calls') = Len(calls) + 1
          /\ calls'[Len(calls')].result = "false" )
        => currentResponseId' = currentResponseId
      ]_vars

\* C36 (as claimed): on an initialized player that is unmuted with the
\* microphone inactive, the output level is the level the user selected
\* last: the last setVolume value applied while unmuted, or the 0.5 of
\* initialize or of the latest unmute if that came later.
C36_VolumePreserved ==
    (isEnabled /\ gainNode /\ ~isMuted /\ ~microphoneActive)
        => gainLevel = lastCall.selected

\* The playAudioChunk calls that have returned true.
AcceptedCalls(cs) == { k \in 1..Len(cs) : cs[k].result = "true" }

\* C38: frameCount is the number of playAudioChunk calls that have returned
\* true; a step raises it by one exactly when a call returns true in it, and
\* no step lowers it.
C38_FrameCountCountsAccepted ==
    /\ [](frameCount = Cardinality(AcceptedCalls(calls)))
    /\ [][ /\ frameCount' \in {frameCount, frameCount + 1}
           /\ (frameCount' = frameCount + 1)
                 <=> (\E k \in AcceptedCalls(calls') : k \notin AcceptedCalls(calls))
         ]_vars

\* One chunk was accepted and counted, stopAllAudio ran after it, and a later
\* call returned false: the count is still one.
C38_Witness ==
    /\ Len(calls) = 2
    /\ calls[1].result = "true" /\ calls[1].schedEpoch = 0
    /\ calls[2].result = "false" /\ calls[2].invokedEpoch = 1
    /\ stopCount = 1
    /\ frameCount = 1

\* C39: an enabled player has an audio context and a gain node, and a gain
\* node never exists without an audio context; so this.gainNode! on line
\* 102 and this.audioContext! on lines 214, 253 and 257 are never null where
\* they are reached: in a call that passed the entry tests, also after its
\* await, and in setMicrophoneActive past its test of the gain node.
C39_AudioGraphAvailable ==
    /\ isEnabled => (audioContext # "null" /\ gainNode)
    /\ gainNode => audioContext # "null"
    /\ (pendingResume # << >> \/ microtasks # << >>)
          => (audioContext # "null" /\ gainNode)

\* initialize() has succeeded, and a later initialize() on the same player
\* failed: the player is still enabled, with its context and gain node.
C39_Witness ==
    /\ lastCall.op = "initialize" /\ lastCall.result = "false"
    /\ isEnabled /\ gainNode /\ audioContext # "null"

\* The scheduled messages sent, in the order of sending.
sent == Scheduler.sent

\* C34: within one enabled run of the scheduler the messages are sent in list
\* order, each at most once: the first sent is the first of the list and the
\* index of each later one is one more than that of the one sent before it,
\* whatever the interleaving of send timers and manual triggers; when the
\* last message has been sent the scheduler is disabled, marked completed and
\* its index is 0 again.
C34_SentOnceInOrder ==
    /\ \A i \in 1..Len(sent) :
          IF i > 1 /\ sent[i - 1].run = sent[i].run
          THEN sent[i].idx = sent[i - 1].idx + 1
          ELSE sent[i].idx = 0
    /\ ( /\ sent # << >>
         /\ sent[Len(sent)].run = Scheduler.run
         /\ sent[Len(sent)].idx = Len(ScheduledDelays) - 1 )
       => ( /\ ~Scheduler.schedulerEnabled
            /\ Scheduler.schedulerCompleted
            /\ Scheduler.currentMessageIndex = 0 )

\* The latest time for which Date.now() is followed.
Horizon == Epoch + MaxTicks * TickMs

\* With the Gemini runtime, the scheduler enabled and the client connected, a
\* qualifying agent message outside the cooldown has just been taken (the
\* silence timer is set), n scheduled messages were sent so far, and there is
\* time for the silence timer and the send timer to run out.
AgentMessageTaken(n) ==
    /\ Scheduler.runtime = "gemini"
    /\ Scheduler.schedulerEnabled /\ Scheduler.schedulerEnabledRef
    /\ clientConnected
    /\ Scheduler.pendingAgentMessageRef
    /\ Scheduler.audioSilenceTimerRef # NoTimer
    /\ Scheduler.audioSilenceTimerRef.deadline + MinDelayMs <= Horizon
    /\ Len(sent) = n

\* A timer is set that runs out, or sets one that runs out, after the Horizon.
BeyondHorizon ==
    \/ /\ Scheduler.audioSilenceTimerRef # NoTimer
       /\ Scheduler.audioSilenceTimerRef.deadline + MinDelayMs > Horizon
    \/ /\ Scheduler.schedulerCooldownRef # NoTimer
       /\ Scheduler.schedulerCooldownRef.deadline > Horizon

\* C35: with the Gemini runtime, the scheduler enabled and the client
\* connected, every qualifying agent message outside the 3 s cooldown leads
\* to a scheduled message being sent (unless the scheduler is switched off,
\* the connection ends or the time followed ends first), and no message is
\* sent by the send timer while fewer than 2000 ms have passed since the last
\* audio frame.
C35_GeminiWaitsForSilence ==
    /\ [](\A i \in 1..Len(sent) :
             (Scheduler.runtime = "gemini" /\ sent[i].by = "timer")
                => sent[i].at - sent[i].audio >= SilenceMs)
    /\ \A n \in 0..(MaxClicks + MaxEvents) :
          AgentMessageTaken(n)
             ~> \/ Len(sent) > n
                \/ ~Scheduler.schedulerEnabled \/ ~clientConnected
                \/ BeyondHorizon

\* C37: any two consecutive scheduled sends, by the send timer or by a manual
\* trigger, are at least 1000 ms apart.
C37_SendSpacing ==
    \A i \in 2..Len(sent) : sent[i].at - sent[i - 1].at >= ManualCooldownMs

====
